---- MODULE Spec2Model ----
(***************************************************************************)
(* Verification model of the rust-os kernel.                               *)
(*                                                                         *)
(*  - Spec     : the cooperative scheduler of src/task/mod.rs together     *)
(*               with the context switch entry of src/task/context.rs.     *)
(*  - SemSpec  : the counting semaphore of src/task/sync.rs, run by a few  *)
(*               tasks whose atomic steps interleave freely.               *)
(*                                                                         *)
(* Option<T> values are sequences of length at most one: None is <<>> and  *)
(* Some(x) is <<x>>.  An Arc<RwLock<Task>> is the task's id, the task      *)
(* object itself lives in arena.  TaskStatistics (created_at,              *)
(* total_runtime, context_switches, last_scheduled) is written by          *)
(* schedule() and read by nothing; it is left out of the state.            *)
(***************************************************************************)
EXTENDS Integers, Sequences, FiniteSets, TLC

(***************************************************************************)
(* Bounds of the model                                                     *)
(***************************************************************************)
\* number of tasks that are ever spawned
MaxTasks == 2
\* The time quantum of a task.  Task::DEFAULT_QUANTUM is 100 in the source;
\* schedule() only ever compares the remaining slice with 1, so the model
\* runs with a short quantum that still has calls that find slice left and
\* calls that find it used up.
Quantum == 2
\* total number of entries the three run queues may hold when unblock_task
\* adds one (it can add an entry for a task that already has one)
MaxQueued == 1
\* how far below zero a time slice that wrapped around is followed
MaxWrap == 1
\* number of tasks that use the semaphore
NumProcs == 3
\* Semaphore::new(initial): initial is drawn from 0..MaxInitial
MaxInitial == 1
\* release() is called only while the count is below MaxCount
MaxCount == 2
\* TCP sequence and acknowledgment numbers are u32 in the source; the model
\* counts them modulo SeqSpace, small enough for the additions to wrap
SeqSpace == 3
\* longest payload of a segment
MaxPayload == 2
\* segments with payload are taken while the receive buffer has room
MaxBuffer == 3
\* number of Socket objects that are ever created
MaxSockets == 2
\* number of heap pages init_heap maps (HEAP_SIZE / 4096 in the source)
HeapPages == 1
\* number of pages of the largest program that is loaded
MaxProgramPages == 3
\* the size of the usize space the heap statistics wrap in (2^64 in the source)
UsizeSpace == 4
\* the capacity of the scancode queue (100 in the source)
QUEUE_SIZE == 3
\* number of scancodes the keyboard delivers and the queue accepts
MaxScancodes == 6

(***************************************************************************)
(* Program constants                                                       *)
(***************************************************************************)
\* enum TaskPriority
Low == 0
Normal == 1
High == 2

Priorities == {Low, Normal, High}
\* enum TaskState
Ready == "Ready"
Running == "Running"
Blocked == "Blocked"
Terminated == "Terminated"
Suspended == "Suspended"

None == <<>>
Some(x) == <<x>>

\* the values get_current_time() takes, and the deadlines and group ids the
\* callers pass
Clock == {0, 1}
Deadlines == {0}
GroupIds == {0}
Procs == 1..NumProcs

VARIABLES
    tasks,          \* Scheduler.tasks: run queue (sequence of task ids) per priority 0..2
    current,        \* Scheduler.current: Option<task id>
    task_groups,    \* Scheduler.task_groups: group id -> sequence of task ids
    arena,          \* the Task objects behind the Arcs, by task id
    next_id,        \* Task::new's NEXT_ID
    now,            \* the value get_current_time() returns
    cpu,            \* whose stack the CPU executes on: None is the boot stack
    hung,           \* the CPU spins for ever on a lock with interrupts disabled
    last,           \* history: the scheduler operation that led to this state
    count,          \* Semaphore.count
    waiters,        \* Semaphore.waiters: the parked tasks, oldest first
    flag,           \* the AtomicBool of each task's waiter (false when it has none)
    pc,             \* where each task is in acquire() / release()
    seen,           \* acquire()'s local `current` (0 outside its scope)
    owed,           \* history: the task called acquire() at count 0 and no
                    \* other task has called release() since
    inner,          \* BlockingMutex.inner: the spin mutex is locked
    mutex_waiters,  \* BlockingMutex.waiters: the tasks parked in lock(), oldest first
    lock_flag,      \* the AtomicBool of each task's waiter in lock()
    guard,          \* the task owns a live MutexGuard that lock() returned to it
    condvar_waiters,\* Condvar.waiters: the tasks parked in wait(), oldest first
    wait_flag,      \* the AtomicBool of each task's waiter in wait()
    at,             \* where each task is in lock() / wait()
    in_wait,        \* the task's lock() call is the one inside Condvar::wait
    conn,           \* a TcpConnection: state, remote_port, sequence_number,
                    \* acknowledgment_number, receive_buffer
    wire,           \* the segments the last TCP call handed to the driver
    tcp_ret,        \* the Result of the last TCP API call
    sock,           \* the Socket objects behind the Arcs, in order of creation
    SOCKETS,        \* the registry: socket id -> index of the object in sock
    NEXT_SOCKET_ID, \* the id counter
    UDP_SOCKETS,    \* the ports of the UDP demux table that have a callback
    recv,           \* the task inside recv_from: its socket, whether it came
                    \* through the registry, the length of its buffer
    sock_ret,       \* history: the last socket call or delivery and its result
    net_hung,       \* a path spins for ever on a lock that is never released
    ARP_CACHE,      \* ip -> ArpCacheEntry
    arp_clock,      \* seconds since boot (the environment's clock)
    arp_inserted,   \* history: ip -> the second its entry was inserted
    arp_sent,       \* the frames the last ARP call handed to the driver
    arp_ret,        \* history: the last ARP call and its result
    rx,             \* history: the last inbound packet, the handler it got
                    \* and the buffers its processing handed to the driver
    boot_allocator, \* the BootInfoFrameAllocator _start makes for init_heap
    FRAME_ALLOCATOR,\* the global Option<BootInfoFrameAllocator>
    heap_ready,     \* init_heap has run
    page_table,     \* the active page table: page -> frame
    tables,         \* the page tables of the program region exist
    handed,         \* history: the frames allocate_frame returned, in order
    mem_ret,        \* history: the last memory call and its result
    ALLOCATED_BYTES,    \* the three AtomicUsize statistics of allocator.rs
    ALLOCATION_COUNT,
    PEAK_MEMORY_USAGE,
    track,          \* each caller of track_allocation: where it is and its locals
    SCANCODE_QUEUE, \* the OnceCell: None, or the ArrayQueue's content, oldest first
    kb_stream,      \* a KeyboardStream is held by a consumer
    kb_panic,       \* KeyboardStream::new has panicked
    kb_accepted,    \* history: the scancodes the queue accepted, in order
    kb_received,    \* history: the scancodes poll_next popped, in order
    kb_last,        \* history: the last keyboard operation
    lk_at,          \* each context: the code path it is on and its next step
    rw_at,          \* RwLock: each task is idle, holds a guard or is parked
    rw_flag,        \* RwLock: the AtomicBool of each task's waiter
    read_waiters,   \* RwLock.read_waiters
    write_waiters   \* RwLock.write_waiters

schedVars == <<tasks, current, task_groups, arena, next_id, now, cpu, hung, last>>
semVars == <<count, waiters, flag, pc, seen, owed>>

syncVars == <<inner, mutex_waiters, lock_flag, guard, condvar_waiters, wait_flag, at, in_wait>>

tcpVars == <<conn, wire, tcp_ret>>
sockVars == <<sock, SOCKETS, NEXT_SOCKET_ID, UDP_SOCKETS, recv, sock_ret, net_hung>>
arpVars == <<ARP_CACHE, arp_clock, arp_inserted, arp_sent, arp_ret>>
rxVars == <<rx>>
memVars == <<boot_allocator, FRAME_ALLOCATOR, heap_ready, page_table, tables, handed, mem_ret>>
statVars == <<ALLOCATED_BYTES, ALLOCATION_COUNT, PEAK_MEMORY_USAGE, track>>
kbVars == <<SCANCODE_QUEUE, kb_stream, kb_panic, kb_accepted, kb_received, kb_last>>
lkVars == <<lk_at>>
rwVars == <<rw_at, rw_flag, read_waiters, write_waiters>>

outsideScheduler == <<semVars, syncVars, tcpVars, sockVars, arpVars, rxVars, memVars, statVars, kbVars, lkVars, rwVars>>
outsideSemaphore == <<schedVars, syncVars, tcpVars, sockVars, arpVars, rxVars, memVars, statVars, kbVars, lkVars, rwVars>>
outsideSync == <<schedVars, semVars, tcpVars, sockVars, arpVars, rxVars, memVars, statVars, kbVars, lkVars, rwVars>>
outsideTcp == <<schedVars, semVars, syncVars, sockVars, arpVars, rxVars, memVars, statVars, kbVars, lkVars, rwVars>>
outsideSockets == <<schedVars, semVars, syncVars, tcpVars, arpVars, rxVars, memVars, statVars, kbVars, lkVars, rwVars>>
outsideArp == <<schedVars, semVars, syncVars, tcpVars, sockVars, rxVars, memVars, statVars, kbVars, lkVars, rwVars>>
outsideSocketsAndTcp == <<schedVars, semVars, syncVars, arpVars, rxVars, memVars, statVars, kbVars, lkVars, rwVars>>
outsideSocketsAndRx == <<schedVars, semVars, syncVars, tcpVars, arpVars, memVars, statVars, kbVars, lkVars, rwVars>>
outsideMemory == <<schedVars, semVars, syncVars, tcpVars, sockVars, arpVars, rxVars, statVars, kbVars, lkVars, rwVars>>
outsideStats == <<schedVars, semVars, syncVars, tcpVars, sockVars, arpVars, rxVars, memVars, kbVars, lkVars, rwVars>>
outsideKeyboard == <<schedVars, semVars, syncVars, tcpVars, sockVars, arpVars, rxVars, memVars, statVars, lkVars, rwVars>>
outsideLocks == <<schedVars, semVars, syncVars, tcpVars, sockVars, arpVars, rxVars, memVars, statVars, kbVars, rwVars>>
outsideRwLock == <<schedVars, semVars, syncVars, tcpVars, sockVars, arpVars, rxVars, memVars, statVars, kbVars, lkVars>>

vars == <<schedVars, semVars, syncVars, tcpVars, sockVars, arpVars, rxVars, memVars, statVars, kbVars, lkVars, rwVars>>

(***************************************************************************)
(* Task                                                                    *)
(***************************************************************************)
\* Task::new: everything but the entry point, the stack and the TLS block
Task_new ==
    [ state         |-> Ready,
      priority      |-> Normal,
      quantum       |-> Quantum,
      time_slice    |-> Quantum,
      deadline      |-> None,
      group_id      |-> None,
      base_priority |-> Normal ]

\* Task::with_priority: sets priority and nothing else
with_priority(priority) == [Task_new EXCEPT !.priority = priority]

\* Task::set_deadline
set_deadline(task, deadline) == [task EXCEPT !.deadline = Some(deadline)]

\* Task::set_group
set_group(task, group_id) == [task EXCEPT !.group_id = Some(group_id)]

\* Task::reset_time_slice
reset_time_slice(task) == [task EXCEPT !.time_slice = task.quantum]

(***************************************************************************)
(* time_slice is an AtomicUsize.  The model keeps its two's-complement     *)
(* reading: a value v >= 0 is the usize v, a value v < 0 is the usize      *)
(* 2^64 + v, so that fetch_sub(1) is v - 1 also when it wraps at zero.     *)
(***************************************************************************)
\* fetch_sub(1, SeqCst): the stored value afterwards
fetch_sub_1(v) == v - 1

\* Task::decrement_time_slice's result: the previous value was <= 1 (unsigned)
decrement_time_slice(task) == task.time_slice = 0 \/ task.time_slice = 1

\* Task::boost_priority, on the priority
boost_priority(priority) ==
    IF priority # High
    THEN CASE priority = Low    -> Normal
           [] priority = Normal -> High
           [] OTHER             -> High
    ELSE priority

\* a suspend that leaves the running task alone
suspend_not_running(task) ==
    IF task.state # Terminated /\ task.state # Running
    THEN [task EXCEPT !.state = Suspended]
    ELSE task

\* Task::suspend
suspend(task) ==
    IF task.state # Terminated THEN [task EXCEPT !.state = Suspended] ELSE task

\* Task::resume
resume(task) ==
    IF task.state = Suspended THEN [task EXCEPT !.state = Ready] ELSE task

(***************************************************************************)
(* Scheduler                                                               *)
(***************************************************************************)
\* every entry of the three run queues, in the order `for priority_queue in
\* &mut self.tasks` visits them
queued(q) == q[Low] \o q[Normal] \o q[High]

InQueue(q, t) == \E p \in Priorities : \E i \in 1..Len(q[p]) : q[p][i] = t

\* a boost loop that also takes a deadline equal to the current time
RECURSIVE boost_due(_, _, _)
boost_due(a, entries, time) ==
    IF entries = <<>> THEN a
    ELSE LET t == Head(entries)
             a1 == IF a[t].deadline # None /\ time >= a[t].deadline[1]
                   THEN [a EXCEPT ![t].priority = boost_priority(@)]
                   ELSE a
         IN boost_due(a1, Tail(entries), time)

\* schedule(), lines 227-236: every queue entry whose task has a deadline
\* that get_current_time() has passed gets boost_priority
RECURSIVE boost_expired(_, _, _)
boost_expired(a, entries, time) ==
    IF entries = <<>> THEN a
    ELSE LET t == Head(entries)
             a1 == IF a[t].deadline # None /\ time > a[t].deadline[1]
                   THEN [a EXCEPT ![t].priority = boost_priority(@)]
                   ELSE a
         IN boost_expired(a1, Tail(entries), time)

\* a queue scan that forgets the .rev()
scan_order_ascending == <<Low, Normal, High>>

\* schedule(), line 254: `for priority in (0..self.tasks.len()).rev()`
scan_order == <<High, Normal, Low>>

\* schedule(), lines 254-263: the first queue in scan order that pop_front
\* finds non-empty, None when all are empty
first_nonempty(q) ==
    LET hits == {i \in 1..Len(scan_order) : q[scan_order[i]] # <<>>}
    IN IF hits = {} THEN None
       ELSE Some(scan_order[CHOOSE i \in hits : \A j \in hits : i <= j])

\* schedule(), lines 245-252: the current task taken out of the slot is marked
\* Ready, gets a fresh time slice and goes to the back of the queue of its
\* priority, unless it is Terminated or Suspended
requeues(task) == task.state # Terminated /\ task.state # Suspended

\* schedule(), lines 218-266, as a function of the scheduler's fields; the
\* result's current is also the value schedule() returns
schedule_result(q, c, a, time) ==
    LET a1 == boost_expired(a, queued(q), time)
    IN IF c # None /\ ~decrement_time_slice(a1[c[1]])
       THEN \* lines 238-243: time slice left, the current task is returned
            [ tasks   |-> q,
              current |-> c,
              arena   |-> [a1 EXCEPT ![c[1]].time_slice = fetch_sub_1(@)] ]
       ELSE LET a2 == IF c # None
                      THEN [a1 EXCEPT ![c[1]].time_slice = fetch_sub_1(@)]
                      ELSE a1
                back == c # None /\ requeues(a2[c[1]])
                a3 == IF back
                      THEN [a2 EXCEPT ![c[1]] =
                               reset_time_slice([a2[c[1]] EXCEPT !.state = Ready])]
                      ELSE a2
                q3 == IF back
                      THEN [q EXCEPT ![a3[c[1]].priority] = Append(@, c[1])]
                      ELSE q
                lvl == first_nonempty(q3)
            IN IF lvl = None
               THEN [ tasks |-> q3, current |-> None, arena |-> a3 ]
               ELSE LET t == Head(q3[lvl[1]])
                    IN [ tasks   |-> [q3 EXCEPT ![lvl[1]] = Tail(@)],
                         current |-> Some(t),
                         arena   |-> [a3 EXCEPT ![t].state = Running] ]

TaskIds == DOMAIN arena

\* history record: the operation, the task that was current when it was
\* called, the group it was called for
Did(op, was, g) == [op |-> op, was |-> was, g |-> g]
NoOp == Did("other", None, None)

\* the task object a spawn adds to the arena under the id NEXT_ID hands out
Allocate(task) ==
    /\ arena' = [i \in 0..next_id |-> IF i = next_id THEN task ELSE arena[i]]
    /\ next_id' = next_id + 1

QueuedCount == Len(tasks[Low]) + Len(tasks[Normal]) + Len(tasks[High])

\* what every operation needs: the CPU is not stuck
Alive == ~hung

\* Scheduler::spawn_with_priority
spawn_with_priority(priority) ==
    /\ Alive
    /\ next_id < MaxTasks
    /\ Allocate(with_priority(priority))
    /\ tasks' = [tasks EXCEPT ![priority] = Append(@, next_id)]
    /\ last' = NoOp
    /\ UNCHANGED <<current, task_groups, now, cpu, hung, outsideScheduler>>

\* Scheduler::spawn
spawn == spawn_with_priority(Normal)

\* Scheduler::spawn_with_deadline
spawn_with_deadline(deadline) ==
    /\ Alive
    /\ next_id < MaxTasks
    /\ Allocate(set_deadline(Task_new, deadline))
    /\ tasks' = [tasks EXCEPT ![Normal] = Append(@, next_id)]
    /\ last' = NoOp
    /\ UNCHANGED <<current, task_groups, now, cpu, hung, outsideScheduler>>

\* Scheduler::spawn_in_group
spawn_in_group(group_id) ==
    /\ Alive
    /\ next_id < MaxTasks
    /\ Allocate(set_group(Task_new, group_id))
    /\ task_groups' =
         [g \in DOMAIN task_groups \cup {group_id} |->
            IF g \in DOMAIN task_groups
            THEN (IF g = group_id THEN Append(task_groups[g], next_id)
                                  ELSE task_groups[g])
            ELSE <<next_id>>]
    /\ tasks' = [tasks EXCEPT ![Normal] = Append(@, next_id)]
    /\ last' = NoOp
    /\ UNCHANGED <<current, now, cpu, hung, outsideScheduler>>

\* the tasks of a group, the empty set for a group id that is no key
Members(group_id) ==
    IF group_id \in DOMAIN task_groups
    THEN {task_groups[group_id][i] : i \in 1..Len(task_groups[group_id])}
    ELSE {}

\* Scheduler::suspend_group
suspend_group(group_id) ==
    /\ Alive
    /\ arena' = [t \in TaskIds |->
                   IF t \in Members(group_id) THEN suspend(arena[t]) ELSE arena[t]]
    /\ last' = Did("suspend_group", None, Some(group_id))
    /\ UNCHANGED <<tasks, current, task_groups, next_id, now, cpu, hung, outsideScheduler>>

\* Scheduler::resume_group
resume_group(group_id) ==
    /\ Alive
    /\ arena' = [t \in TaskIds |->
                   IF t \in Members(group_id) THEN resume(arena[t]) ELSE arena[t]]
    /\ last' = [ op |-> IF last.op = "suspend_group" /\ last.g = Some(group_id)
                        THEN "suspend_resume" ELSE "other",
                 was |-> None,
                 g |-> IF last.op = "suspend_group" /\ last.g = Some(group_id)
                       THEN Some(group_id) ELSE None,
                 woken |-> {t \in Members(group_id) : arena[t].state = Suspended} ]
    /\ UNCHANGED <<tasks, current, task_groups, next_id, now, cpu, hung, outsideScheduler>>

\* a time slice that wrapped around is followed MaxWrap steps below zero
SliceInBounds ==
    IF current = None THEN TRUE ELSE arena[current[1]].time_slice > -MaxWrap

\* Scheduler::schedule, called on the scheduler directly (the timer handler
\* does so before it yields)
schedule ==
    /\ Alive
    /\ SliceInBounds
    /\ LET r == schedule_result(tasks, current, arena, now)
       IN /\ tasks' = r.tasks
          /\ current' = r.current
          /\ arena' = r.arena
    /\ last' = Did("schedule", current, None)
    /\ UNCHANGED <<task_groups, next_id, now, cpu, hung, outsideScheduler>>

\* yield_now = context::switch_context, lines 72-85.  The task schedule()
\* returns is write-locked as `next`; guard.current is then write-locked as
\* `current`.  When both are the same RwLock the second write() spins for
\* ever, with interrupts disabled and the scheduler lock held; otherwise the
\* CPU moves to the stack of `next`.
yield_now ==
    /\ Alive
    /\ SliceInBounds
    /\ LET r == schedule_result(tasks, current, arena, now)
       IN /\ tasks' = r.tasks
          /\ current' = r.current
          /\ arena' = r.arena
          /\ IF r.current = None
             THEN UNCHANGED <<cpu, hung>>
             ELSE IF r.current = current'
                  THEN hung' = TRUE /\ cpu' = cpu
                  ELSE hung' = FALSE /\ cpu' = r.current
    /\ last' = Did("yield_now", current, None)
    /\ UNCHANGED <<task_groups, next_id, now, outsideScheduler>>

\* timer_interrupt_handler, after notify_end_of_interrupt: schedule() under
\* the scheduler lock; on Some(_) the guard is dropped and yield_now() runs
\* switch_context, which calls schedule() again; on None the handler returns
\* with the guard dropped at its end
timer_interrupt_handler ==
    /\ Alive
    /\ SliceInBounds
    /\ LET r == schedule_result(tasks, current, arena, now)
       IN IF r.current = None
          THEN /\ tasks' = r.tasks
               /\ current' = r.current
               /\ arena' = r.arena
               /\ UNCHANGED <<cpu, hung>>
          ELSE LET next == schedule_result(r.tasks, r.current, r.arena, now)
               IN /\ tasks' = next.tasks
                  /\ current' = next.current
                  /\ arena' = next.arena
                  /\ IF next.current = None
                     THEN UNCHANGED <<cpu, hung>>
                     ELSE hung' = TRUE /\ cpu' = cpu
    /\ last' = [ op |-> "timer", was |-> current, g |-> None,
                 eoi_first |-> TRUE,
                 selected |-> schedule_result(tasks, current, arena, now).current,
                 yielded |-> schedule_result(tasks, current, arena, now).current # None,
                 locked_at_yield |-> FALSE ]
    /\ UNCHANGED <<task_groups, next_id, now, outsideScheduler>>

\* Scheduler::block_current
block_current ==
    /\ Alive
    /\ SliceInBounds
    /\ LET a1 == IF current # None
                 THEN [arena EXCEPT ![current[1]].state = Blocked]
                 ELSE arena
           r == schedule_result(tasks, current, a1, now)
       IN /\ tasks' = r.tasks
          /\ current' = r.current
          /\ arena' = r.arena
    /\ last' = Did("block_current", current, None)
    /\ UNCHANGED <<task_groups, next_id, now, cpu, hung, outsideScheduler>>

\* Scheduler::unblock_task, for a task that is Blocked or Suspended
unblock_task(t) ==
    /\ Alive
    /\ arena[t].state \in {Blocked, Suspended}
    /\ QueuedCount < MaxQueued
    /\ LET priority == arena[t].priority
       IN /\ arena' = [arena EXCEPT ![t].state = Ready]
          /\ tasks' = [tasks EXCEPT ![priority] = Append(@, t)]
    /\ last' = NoOp
    /\ UNCHANGED <<current, task_groups, next_id, now, cpu, hung, outsideScheduler>>

\* Task::reset_priority, on a task of the arena
reset_priority(t) ==
    /\ Alive
    /\ arena' = [arena EXCEPT ![t].priority = arena[t].base_priority]
    /\ arena' # arena
    /\ last' = NoOp
    /\ UNCHANGED <<tasks, current, task_groups, next_id, now, cpu, hung, outsideScheduler>>

\* the clock advances
Tick ==
    /\ Alive
    /\ now + 1 \in Clock
    /\ now' = now + 1
    /\ last' = NoOp
    /\ UNCHANGED <<tasks, current, task_groups, arena, next_id, cpu, hung, outsideScheduler>>

(***************************************************************************)
(* Semaphore (task/sync.rs).  A task is idle, inside acquire() or inside   *)
(* release(); the atomic steps of different tasks interleave freely, which *)
(* covers every point at which the CPU can pass from one task to another.  *)
(* The waiter a task makes when it parks is the flag of that task: a task  *)
(* has one waiter at a time and drops it when it wakes.                    *)
(***************************************************************************)
\* acquire(), line 22: `current > 0`, the guard of the compare_exchange
may_take(current_count) == current_count > 0

\* a release that wakes the newest waiter (pop_back)
pop_newest_waiter(ws) == ws[Len(ws)]

\* release(), line 44: waiters.pop_front(), the waiter that is woken
pop_waiter(ws) == Head(ws)

\* release(), line 44: the waiter list after the pop
after_pop(ws) == Tail(ws)

\* a task calls acquire()
acquire_call(p) ==
    /\ pc[p] = "idle"
    /\ pc' = [pc EXCEPT ![p] = "load"]
    /\ owed' = [owed EXCEPT ![p] = (count = 0)]
    /\ UNCHANGED <<count, waiters, flag, seen, outsideSemaphore>>

\* acquire(), line 21: count.load
acquire_load(p) ==
    /\ pc[p] = "load"
    /\ seen' = [seen EXCEPT ![p] = count]
    /\ pc' = [pc EXCEPT ![p] = "cas"]
    /\ UNCHANGED <<count, waiters, flag, owed, outsideSemaphore>>

\* acquire(), lines 22-29: the compare_exchange succeeds and acquire returns
acquire_take(p) ==
    /\ pc[p] = "cas"
    /\ may_take(seen[p])
    /\ count = seen[p]
    /\ count' = seen[p] - 1
    /\ pc' = [pc EXCEPT ![p] = "idle"]
    /\ seen' = [seen EXCEPT ![p] = 0]
    /\ owed' = [owed EXCEPT ![p] = FALSE]
    /\ UNCHANGED <<waiters, flag, outsideSemaphore>>

\* acquire(), lines 22-33: the count was 0 or the compare_exchange failed;
\* a fresh waiter (false) goes to the back of the waiter list
acquire_park(p) ==
    /\ pc[p] = "cas"
    /\ ~(may_take(seen[p]) /\ count = seen[p])
    /\ flag' = [flag EXCEPT ![p] = FALSE]
    /\ waiters' = Append(waiters, p)
    /\ pc' = [pc EXCEPT ![p] = "wait"]
    /\ seen' = [seen EXCEPT ![p] = 0]
    /\ UNCHANGED <<count, owed, outsideSemaphore>>

\* acquire(), lines 36-38: the waiter's flag is found set, the waiter is
\* dropped and the outer loop starts again; while the flag is not set the
\* task only yields
acquire_woken(p) ==
    /\ pc[p] = "wait"
    /\ flag[p]
    /\ pc' = [pc EXCEPT ![p] = "load"]
    /\ flag' = [flag EXCEPT ![p] = FALSE]
    /\ UNCHANGED <<count, waiters, seen, owed, outsideSemaphore>>

\* release(), line 43: count.fetch_add(1)
release_add(p) ==
    /\ pc[p] = "idle"
    /\ count < MaxCount
    /\ count' = count + 1
    /\ pc' = [pc EXCEPT ![p] = "wake"]
    /\ owed' = [q \in Procs |-> IF q = p THEN owed[q] ELSE FALSE]
    /\ UNCHANGED <<waiters, flag, seen, outsideSemaphore>>

\* release(), lines 44-46: the popped waiter, if there is one, is set
release_wake(p) ==
    /\ pc[p] = "wake"
    /\ IF waiters = <<>>
       THEN UNCHANGED <<waiters, flag>>
       ELSE /\ flag' = [flag EXCEPT ![pop_waiter(waiters)] = TRUE]
            /\ waiters' = after_pop(waiters)
    /\ pc' = [pc EXCEPT ![p] = "idle"]
    /\ UNCHANGED <<count, seen, owed, outsideSemaphore>>

\* Semaphore::new
Semaphore_new(initial) ==
    /\ count = initial
    /\ waiters = <<>>
    /\ flag = [p \in Procs |-> FALSE]
    /\ pc = [p \in Procs |-> "idle"]
    /\ seen = [p \in Procs |-> 0]
    /\ owed = [p \in Procs |-> FALSE]

\* Scheduler::new
Scheduler_new ==
    /\ tasks = [p \in Priorities |-> <<>>]
    /\ current = None
    /\ task_groups = <<>>
    /\ arena = <<>>
    /\ next_id = 0
    /\ now = 0
    /\ cpu = None
    /\ hung = FALSE
    /\ last = NoOp

(***************************************************************************)
(* BlockingMutex and Condvar (task/sync.rs).  As for the semaphore, the    *)
(* atomic steps of the tasks interleave freely.  A MutexGuard is the spin  *)
(* crate's guard: dropping it unlocks inner and does nothing else.         *)
(***************************************************************************)
\* a task calls BlockingMutex::lock
lock_call(p) ==
    /\ at[p] = "idle"
    /\ ~guard[p]
    /\ at' = [at EXCEPT ![p] = "try"]
    /\ UNCHANGED <<inner, mutex_waiters, lock_flag, guard, condvar_waiters, wait_flag, in_wait, outsideSync>>

\* lock(), lines 69-71: try_lock; the guard is returned to the caller, or,
\* inside Condvar::wait (line 116, `let _ = mutex.lock()`), bound to nothing
lock_try(p) ==
    /\ at[p] = "try"
    /\ IF ~inner
       THEN /\ inner' = TRUE
            /\ IF in_wait[p]
               THEN at' = [at EXCEPT ![p] = "discard"] /\ guard' = guard
               ELSE at' = [at EXCEPT ![p] = "idle"]
                    /\ guard' = [guard EXCEPT ![p] = TRUE]
       ELSE /\ at' = [at EXCEPT ![p] = "push"]
            /\ UNCHANGED <<inner, guard>>
    /\ UNCHANGED <<mutex_waiters, lock_flag, condvar_waiters, wait_flag, in_wait, outsideSync>>

\* lock(), lines 74-75: a new waiter flag goes to the back of the list
lock_park(p) ==
    /\ at[p] = "push"
    /\ lock_flag' = [lock_flag EXCEPT ![p] = FALSE]
    /\ mutex_waiters' = Append(mutex_waiters, p)
    /\ at' = [at EXCEPT ![p] = "parked"]
    /\ UNCHANGED <<inner, guard, condvar_waiters, wait_flag, in_wait, outsideSync>>

\* lock(), lines 78-80: the wait loop ends when the flag is set
lock_woken(p) ==
    /\ at[p] = "parked"
    /\ lock_flag[p]
    /\ lock_flag' = [lock_flag EXCEPT ![p] = FALSE]
    /\ at' = [at EXCEPT ![p] = "try"]
    /\ UNCHANGED <<inner, mutex_waiters, guard, condvar_waiters, wait_flag, in_wait, outsideSync>>

\* the holder drops its MutexGuard: spin::MutexGuard's drop unlocks inner
guard_drop(p) ==
    /\ at[p] = "idle"
    /\ guard[p]
    /\ inner' = FALSE
    /\ guard' = [guard EXCEPT ![p] = FALSE]
    /\ UNCHANGED <<mutex_waiters, lock_flag, condvar_waiters, wait_flag, at, in_wait, outsideSync>>

\* BlockingMutex::unlock_next, called by any task
unlock_next(p) ==
    /\ at[p] = "idle"
    /\ mutex_waiters # <<>>
    /\ lock_flag' = [lock_flag EXCEPT ![Head(mutex_waiters)] = TRUE]
    /\ mutex_waiters' = Tail(mutex_waiters)
    /\ UNCHANGED <<inner, guard, condvar_waiters, wait_flag, at, in_wait, outsideSync>>

\* Condvar::wait, lines 103-104, called by a task that holds the guard
wait_call(p) ==
    /\ at[p] = "idle"
    /\ guard[p]
    /\ wait_flag' = [wait_flag EXCEPT ![p] = FALSE]
    /\ condvar_waiters' = Append(condvar_waiters, p)
    /\ at' = [at EXCEPT ![p] = "unlock"]
    /\ UNCHANGED <<inner, mutex_waiters, lock_flag, guard, in_wait, outsideSync>>

\* wait(), lines 107-109: mutex.inner.force_unlock()
wait_unlock(p) ==
    /\ at[p] = "unlock"
    /\ inner' = FALSE
    /\ at' = [at EXCEPT ![p] = "waiting"]
    /\ UNCHANGED <<mutex_waiters, lock_flag, guard, condvar_waiters, wait_flag, in_wait, outsideSync>>

\* wait(), lines 111-116: the wait loop ends when the flag is set, then
\* mutex.lock() is called
wait_woken(p) ==
    /\ at[p] = "waiting"
    /\ wait_flag[p]
    /\ wait_flag' = [wait_flag EXCEPT ![p] = FALSE]
    /\ in_wait' = [in_wait EXCEPT ![p] = TRUE]
    /\ at' = [at EXCEPT ![p] = "try"]
    /\ UNCHANGED <<inner, mutex_waiters, lock_flag, guard, condvar_waiters, outsideSync>>

\* wait(), line 116: `let _ = mutex.lock();` drops the guard that lock()
\* returned at the end of the statement, and wait() returns
wait_return(p) ==
    /\ at[p] = "discard"
    /\ inner' = FALSE
    /\ in_wait' = [in_wait EXCEPT ![p] = FALSE]
    /\ at' = [at EXCEPT ![p] = "idle"]
    /\ UNCHANGED <<mutex_waiters, lock_flag, guard, condvar_waiters, wait_flag, outsideSync>>

\* Condvar::notify_one
notify_one(p) ==
    /\ at[p] = "idle"
    /\ condvar_waiters # <<>>
    /\ wait_flag' = [wait_flag EXCEPT ![Head(condvar_waiters)] = TRUE]
    /\ condvar_waiters' = Tail(condvar_waiters)
    /\ UNCHANGED <<inner, mutex_waiters, lock_flag, guard, at, in_wait, outsideSync>>

\* Condvar::notify_all
notify_all(p) ==
    /\ at[p] = "idle"
    /\ condvar_waiters # <<>>
    /\ wait_flag' = [q \in Procs |->
                       IF \E i \in 1..Len(condvar_waiters) : condvar_waiters[i] = q
                       THEN TRUE ELSE wait_flag[q]]
    /\ condvar_waiters' = <<>>
    /\ UNCHANGED <<inner, mutex_waiters, lock_flag, guard, at, in_wait, outsideSync>>

\* BlockingMutex::new
BlockingMutex_new ==
    /\ inner = FALSE
    /\ mutex_waiters = <<>>
    /\ lock_flag = [p \in Procs |-> FALSE]
    /\ guard = [p \in Procs |-> FALSE]
    /\ at = [p \in Procs |-> "idle"]
    /\ in_wait = [p \in Procs |-> FALSE]

\* Condvar::new
Condvar_new ==
    /\ condvar_waiters = <<>>
    /\ wait_flag = [p \in Procs |-> FALSE]

(***************************************************************************)
(* TcpConnection (network/tcp.rs).  The NIC driver is installed at boot    *)
(* (main.rs 144) before any connection exists, and its send() refuses only *)
(* buffers above 1792 bytes, so every segment a call builds reaches the    *)
(* driver.  A segment is kept by its fields: ports, numbers, the SYN, ACK  *)
(* and PSH flags and the payload.                                          *)
(***************************************************************************)
SequenceNumbers == 0..(SeqSpace - 1)
Ports == {80}
Bytes == {1, 2}
Payloads == UNION {[1..n -> Bytes] : n \in 0..MaxPayload}

\* the segments a peer can send
Segments ==
    [ source_port : Ports, sequence_number : SequenceNumbers,
      acknowledgment_number : SequenceNumbers,
      syn : BOOLEAN, ack : BOOLEAN, payload : Payloads ]

\* u32 addition
u32_add(a, b) == (a + b) % SeqSpace

\* TcpSegment::new as the connection calls it: ports and numbers of the
\* connection, the given flags and payload
TcpSegment_new(c, syn, ack, acknowledgment_number, payload) ==
    [ source_port |-> "local", destination_port |-> c.remote_port,
      sequence_number |-> c.sequence_number,
      acknowledgment_number |-> acknowledgment_number,
      syn |-> syn, ack |-> ack, psh |-> FALSE, payload |-> payload ]

\* the result of a handler: the connection afterwards and what it sent
Handled(c, sent) == [conn |-> c, wire |-> sent]

\* TcpConnection::handle_syn_received
handle_syn_received(c, segment) ==
    LET c1 == [c EXCEPT !.remote_port = segment.source_port,
                        !.acknowledgment_number = u32_add(segment.sequence_number, 1)]
        response == TcpSegment_new(c1, TRUE, TRUE, c1.acknowledgment_number, <<>>)
    IN Handled([c1 EXCEPT !.state = "SynReceived",
                          !.sequence_number = u32_add(@, 1)],
               <<response>>)

\* a handshake that takes any acknowledgment number
accepts_any_ack(c, segment) == TRUE

\* handle_syn_ack_received, line 346: the acknowledgment must be our number
accepts_ack(c, segment) == segment.acknowledgment_number = c.sequence_number

\* TcpConnection::handle_syn_ack_received
handle_syn_ack_received(c, segment) ==
    IF accepts_ack(c, segment)
    THEN LET c1 == [c EXCEPT !.acknowledgment_number = u32_add(segment.sequence_number, 1)]
             response == TcpSegment_new(c1, FALSE, TRUE, c1.acknowledgment_number, <<>>)
         IN Handled([c1 EXCEPT !.state = "Established"], <<response>>)
    ELSE Handled(c, <<>>)

\* an acknowledgment number that counts segments instead of bytes
advance_by_one(acknowledgment_number, payload) == u32_add(acknowledgment_number, 1)

\* handle_established, line 377: acknowledgment_number += payload.len()
advance(acknowledgment_number, payload) == u32_add(acknowledgment_number, Len(payload))

\* TcpConnection::handle_established
handle_established(c, segment) ==
    IF segment.payload # <<>>
    THEN LET c1 == [c EXCEPT !.receive_buffer = @ \o segment.payload,
                             !.acknowledgment_number = advance(@, segment.payload)]
             response == TcpSegment_new(c1, FALSE, TRUE, c1.acknowledgment_number, <<>>)
         IN Handled(c1, <<response>>)
    ELSE Handled(c, <<>>)

\* TcpConnection::handle_segment as a function of connection and segment
handle_segment_result(c, segment) ==
    CASE c.state = "Listen" ->
            IF segment.syn THEN handle_syn_received(c, segment) ELSE Handled(c, <<>>)
      [] c.state = "SynSent" ->
            IF segment.syn /\ segment.ack
            THEN handle_syn_ack_received(c, segment) ELSE Handled(c, <<>>)
      [] c.state = "Established" -> handle_established(c, segment)
      [] OTHER -> Handled(c, <<>>)

\* TcpConnection::handle_segment
handle_segment(segment) ==
    /\ Len(conn.receive_buffer) + Len(segment.payload) <= MaxBuffer
    /\ \E r \in {handle_segment_result(conn, segment)} :
          conn' = r.conn /\ wire' = r.wire
    /\ tcp_ret' = "none"
    /\ UNCHANGED outsideTcp

\* TcpConnection::connect
TcpConnection_connect(remote_port) ==
    /\ IF conn.state # "Closed"
       THEN /\ tcp_ret' = "Err"
            /\ wire' = <<>>
            /\ conn' = conn
       ELSE LET c1 == [conn EXCEPT !.remote_port = remote_port,
                                   !.sequence_number = 0]
                segment == TcpSegment_new(c1, TRUE, FALSE, 0, <<>>)
            IN /\ wire' = <<segment>>
               /\ conn' = [c1 EXCEPT !.state = "SynSent",
                                     !.sequence_number = u32_add(@, 1)]
               /\ tcp_ret' = "Ok"
    /\ UNCHANGED outsideTcp

\* TcpConnection::start_listen
start_listen ==
    /\ IF conn.state # "Closed"
       THEN tcp_ret' = "Err" /\ conn' = conn
       ELSE tcp_ret' = "Ok" /\ conn' = [conn EXCEPT !.state = "Listen"]
    /\ wire' = <<>>
    /\ UNCHANGED outsideTcp

\* a send that skips the state check
send_in_any_state(data) ==
    /\ LET segment == [TcpSegment_new(conn, FALSE, TRUE,
                                      conn.acknowledgment_number, data)
                         EXCEPT !.psh = TRUE]
       IN /\ wire' = <<segment>>
          /\ conn' = [conn EXCEPT !.sequence_number = u32_add(@, Len(data))]
          /\ tcp_ret' = "Ok"
    /\ UNCHANGED outsideTcp

\* TcpConnection::send
TcpConnection_send(data) ==
    /\ IF conn.state # "Established"
       THEN /\ tcp_ret' = "Err"
            /\ wire' = <<>>
            /\ conn' = conn
       ELSE LET segment == [TcpSegment_new(conn, FALSE, TRUE,
                                           conn.acknowledgment_number, data)
                              EXCEPT !.psh = TRUE]
            IN /\ wire' = <<segment>>
               /\ conn' = [conn EXCEPT !.sequence_number = u32_add(@, Len(data))]
               /\ tcp_ret' = "Ok"
    /\ UNCHANGED outsideTcp

\* TcpConnection::new
TcpConnection_new ==
    /\ conn = [ state |-> "Closed", remote_port |-> 0, sequence_number |-> 0,
                acknowledgment_number |-> 0, receive_buffer |-> <<>> ]
    /\ wire = <<>>
    /\ tcp_ret = "none"

(***************************************************************************)
(* Sockets (network/socket.rs) and the UDP demux table (network/udp.rs).   *)
(* A Socket object is either stored in the registry SOCKETS by socket()    *)
(* and used through the registry-level functions, or made by Socket::new   *)
(* and used by its owner directly (dhcp::start_client does so).  The       *)
(* registry-level functions hold the registry lock and the socket's lock   *)
(* for the whole call: the guards are temporaries of the `if let`          *)
(* scrutinee.  The locks are spin locks; a path that asks for a lock which *)
(* it holds itself, or which the task waiting in recv_from holds, spins    *)
(* for ever.  IP addresses and ports are small numbers, 0 is 0.0.0.0 and   *)
(* port 0, the values of a new socket.                                     *)
(***************************************************************************)
Stream == "Stream"
Dgram == "Dgram"
SocketTypes == {Stream, Dgram}
Addresses == {0, 1}
LocalPorts == {0, 1}
Datagrams == {<<b>> : b \in Bytes}
BufferLengths == {1, MaxBuffer}

\* Socket::new: the object, given the id NEXT_SOCKET_ID handed out
Socket_new(socket_type, id, owner) ==
    [ id |-> id, socket_type |-> socket_type, state |-> "Closed",
      local_addr |-> 0, local_port |-> 0,
      remote_addr |-> None, remote_port |-> None,
      receive_buffer |-> <<>>, tcp_connection |-> FALSE, owner |-> owner ]

\* the objects the registry holds, in the key order of SOCKETS.values()
RegistryKeys == DOMAIN SOCKETS
Registered == {SOCKETS[k] : k \in RegistryKeys}

\* a set of locks: the registry lock and the locks of socket objects
Locks(registry, sockets) == [registry |-> registry, sockets |-> sockets]

\* the locks the task waiting in recv_from holds while it yields
HeldByWaiter ==
    IF recv # None /\ recv[1].registry
    THEN Locks(TRUE, {recv[1].o}) ELSE Locks(FALSE, {})

\* the outcome of a call: objects and demux table afterwards, the Result,
\* and whether the call spins for ever on a lock
Outcome(objects, udp, ret, hangs) ==
    [sock |-> objects, UDP_SOCKETS |-> udp, ret |-> ret, hangs |-> hangs]

\* a bind that sets the local endpoint only once the transport has accepted
udp_bind_then_record(objects, udp, o, addr, port) ==
    IF objects[o].socket_type = Dgram
    THEN IF port \in udp
         THEN Outcome(objects, udp, "Port already in use", FALSE)
         ELSE Outcome([objects EXCEPT ![o].local_addr = addr, ![o].local_port = port],
                      udp \cup {port}, "Ok", FALSE)
    ELSE Outcome([objects EXCEPT ![o].local_addr = addr, ![o].local_port = port,
                                 ![o].tcp_connection = TRUE],
                 udp, "Ok", FALSE)

\* Socket::bind, lines 77-96: the endpoint is recorded, then a Dgram socket
\* registers its port with udp::bind and a Stream socket gets a connection
record_then_udp_bind(objects, udp, o, addr, port) ==
    LET recorded == [objects EXCEPT ![o].local_addr = addr, ![o].local_port = port]
    IN IF objects[o].socket_type = Dgram
       THEN IF port \in udp
            THEN Outcome(recorded, udp, "Port already in use", FALSE)
            ELSE Outcome(recorded, udp \cup {port}, "Ok", FALSE)
       ELSE Outcome([recorded EXCEPT ![o].tcp_connection = TRUE], udp, "Ok", FALSE)

\* Socket::bind called on object o by a path that holds the locks in held
Socket_bind(objects, udp, o, addr, port, held) ==
    IF objects[o].state # "Closed"
    THEN Outcome(objects, udp, "Socket already bound or connected", FALSE)
    ELSE IF held.registry \/ Registered \cap held.sockets # {}
    THEN Outcome(objects, udp, "none", TRUE)
    ELSE IF \E r \in Registered :
               objects[r].local_port = port /\ objects[r].local_addr = addr
    THEN Outcome(objects, udp, "Address already in use", FALSE)
    ELSE record_then_udp_bind(objects, udp, o, addr, port)

\* a call that needs the registry lock while the waiting task holds it
Blocked_on_registry == HeldByWaiter.registry

\* the call returns ret, or spins for ever
Returns(op, o, ret, data) ==
    /\ sock_ret' = [op |-> op, o |-> o, ret |-> ret, data |-> data]
    /\ net_hung' = FALSE

Hangs(op, o) ==
    /\ sock_ret' = [op |-> op, o |-> o, ret |-> "none", data |-> <<>>]
    /\ net_hung' = TRUE

\* Socket::new called by a task that keeps the socket for itself
Socket_new_direct(socket_type) ==
    /\ ~net_hung
    /\ Len(sock) < MaxSockets
    /\ sock' = Append(sock, Socket_new(socket_type, NEXT_SOCKET_ID, "task"))
    /\ NEXT_SOCKET_ID' = NEXT_SOCKET_ID + 1
    /\ Returns("new", Len(sock) + 1, "Ok", <<>>)
    /\ UNCHANGED <<SOCKETS, UDP_SOCKETS, recv, outsideSockets>>

\* socket(): Socket::new takes an id, socket() takes the next one as the key
socket(socket_type) ==
    /\ ~net_hung
    /\ Len(sock) < MaxSockets
    /\ IF Blocked_on_registry
       THEN /\ Hangs("socket", 0)
            /\ NEXT_SOCKET_ID' = NEXT_SOCKET_ID + 2
            /\ UNCHANGED <<sock, SOCKETS>>
       ELSE /\ sock' = Append(sock, Socket_new(socket_type, NEXT_SOCKET_ID, "registry"))
            /\ SOCKETS' = [k \in RegistryKeys \cup {NEXT_SOCKET_ID + 1} |->
                              IF k = NEXT_SOCKET_ID + 1 THEN Len(sock) + 1 ELSE SOCKETS[k]]
            /\ NEXT_SOCKET_ID' = NEXT_SOCKET_ID + 2
            /\ Returns("socket", Len(sock) + 1, "Ok", <<>>)
    /\ UNCHANGED <<UDP_SOCKETS, recv, outsideSockets>>

\* bind(socket_id, addr, port)
bind(socket_id, addr, port) ==
    /\ ~net_hung
    /\ IF Blocked_on_registry
       THEN Hangs("bind", SOCKETS[socket_id]) /\ UNCHANGED <<sock, UDP_SOCKETS>>
       ELSE LET o == SOCKETS[socket_id]
                r == Socket_bind(sock, UDP_SOCKETS, o, addr, port, Locks(TRUE, {o}))
            IN /\ sock' = r.sock
               /\ UDP_SOCKETS' = r.UDP_SOCKETS
               /\ IF r.hangs THEN Hangs("bind", o) ELSE Returns("bind", o, r.ret, <<>>)
    /\ UNCHANGED <<SOCKETS, NEXT_SOCKET_ID, recv, outsideSockets>>

\* Socket::bind called by the owner of a socket that is not in the registry
Socket_bind_direct(o, addr, port) ==
    /\ ~net_hung
    /\ sock[o].owner = "task"
    /\ LET r == Socket_bind(sock, UDP_SOCKETS, o, addr, port, HeldByWaiter)
       IN /\ sock' = r.sock
          /\ UDP_SOCKETS' = r.UDP_SOCKETS
          /\ IF r.hangs THEN Hangs("Socket::bind", o)
                        ELSE Returns("Socket::bind", o, r.ret, <<>>)
    /\ UNCHANGED <<SOCKETS, NEXT_SOCKET_ID, recv, outsideSockets>>

\* Socket::connect on a Dgram socket, lines 134-140 (through connect(id) or
\* by the owner): the remote endpoint is stored
Socket_connect_dgram(o, addr, port) ==
    /\ ~net_hung
    /\ sock[o].owner # "dropped"
    /\ sock[o].socket_type = Dgram
    /\ IF sock[o].owner = "registry" /\ Blocked_on_registry
       THEN Hangs("connect", o) /\ sock' = sock
       ELSE IF sock[o].state # "Closed"
       THEN Returns("connect", o, "Socket already connected", <<>>) /\ sock' = sock
       ELSE /\ sock' = [sock EXCEPT ![o].remote_addr = Some(addr),
                                    ![o].remote_port = Some(port),
                                    ![o].state = "Connected"]
            /\ Returns("connect", o, "Ok", <<>>)
    /\ UNCHANGED <<SOCKETS, NEXT_SOCKET_ID, UDP_SOCKETS, recv, outsideSockets>>

\* TcpConnection::connect as a function of the connection: the connection
\* afterwards, what went to the driver, the Result
connect_result(c, remote_port) ==
    IF c.state # "Closed"
    THEN [conn |-> c, wire |-> <<>>, ret |-> "Err"]
    ELSE LET c1 == [c EXCEPT !.remote_port = remote_port, !.sequence_number = 0]
         IN [ conn |-> [c1 EXCEPT !.state = "SynSent",
                                  !.sequence_number = u32_add(@, 1)],
              wire |-> <<TcpSegment_new(c1, TRUE, FALSE, 0, <<>>)>>,
              ret  |-> "Ok" ]

\* TcpConnection::send as a function of the connection
send_result(c, data) ==
    IF c.state # "Established"
    THEN [conn |-> c, wire |-> <<>>, ret |-> "Err"]
    ELSE [ conn |-> [c EXCEPT !.sequence_number = u32_add(@, Len(data))],
           wire |-> <<[TcpSegment_new(c, FALSE, TRUE, c.acknowledgment_number, data)
                          EXCEPT !.psh = TRUE]>>,
           ret  |-> "Ok" ]

\* Socket::connect on a Stream socket, lines 118-133, by the owner; conn is
\* the socket's tcp_connection
Socket_connect_stream(o, addr, port) ==
    /\ ~net_hung
    /\ sock[o].owner = "task"
    /\ sock[o].socket_type = Stream
    /\ IF sock[o].state # "Closed"
       THEN /\ Returns("connect", o, "Socket already connected", <<>>)
            /\ UNCHANGED <<sock, tcpVars>>
       ELSE IF ~sock[o].tcp_connection
       THEN /\ Returns("connect", o, "Socket not bound", <<>>)
            /\ UNCHANGED <<sock, tcpVars>>
       ELSE LET r == connect_result(conn, port)
            IN /\ conn' = r.conn /\ wire' = r.wire /\ tcp_ret' = r.ret
               /\ IF r.ret = "Ok"
                  THEN /\ sock' = [sock EXCEPT ![o].remote_addr = Some(addr),
                                               ![o].remote_port = Some(port),
                                               ![o].state = "Connected"]
                       /\ Returns("connect", o, "Ok", <<>>)
                  ELSE /\ sock' = sock
                       /\ Returns("connect", o, "Connection already exists", <<>>)
    /\ UNCHANGED <<SOCKETS, NEXT_SOCKET_ID, UDP_SOCKETS, recv, outsideSocketsAndTcp>>

\* Socket::send on a Stream socket, lines 146-156, by the owner
Socket_send_stream(o, data) ==
    /\ ~net_hung
    /\ sock[o].owner = "task"
    /\ sock[o].socket_type = Stream
    /\ IF sock[o].state # "Connected"
       THEN /\ Returns("send", o, "Socket not connected", <<>>)
            /\ UNCHANGED tcpVars
       ELSE IF ~sock[o].tcp_connection
       THEN /\ Returns("send", o, "Socket not initialized", <<>>)
            /\ UNCHANGED tcpVars
       ELSE LET r == send_result(conn, data)
            IN /\ conn' = r.conn /\ wire' = r.wire /\ tcp_ret' = r.ret
               /\ IF r.ret = "Ok"
                  THEN Returns("send", o, "Ok", data)
                  ELSE Returns("send", o, "Connection not established", <<>>)
    /\ UNCHANGED <<sock, SOCKETS, NEXT_SOCKET_ID, UDP_SOCKETS, recv, outsideSocketsAndTcp>>

\* tcp::handle_tcp_segment, what the inbound path calls for a TCP segment:
\* the body is empty, no connection sees the segment
handle_tcp_segment(segment) ==
    /\ ~net_hung
    /\ UNCHANGED vars

\* close(socket_id): the entry leaves the registry, the object is dropped
close(socket_id) ==
    /\ ~net_hung
    /\ IF Blocked_on_registry
       THEN Hangs("close", SOCKETS[socket_id]) /\ UNCHANGED <<sock, SOCKETS>>
       ELSE /\ SOCKETS' = [k \in RegistryKeys \ {socket_id} |-> SOCKETS[k]]
            /\ sock' = [sock EXCEPT ![SOCKETS[socket_id]] =
                          Socket_new(@.socket_type, @.id, "dropped")]
            /\ Returns("close", SOCKETS[socket_id], "Ok", <<>>)
    /\ UNCHANGED <<NEXT_SOCKET_ID, UDP_SOCKETS, recv, outsideSockets>>

\* the first len bytes of a receive buffer and what is left of it
Drained(buffer, len) ==
    LET n == IF len < Len(buffer) THEN len ELSE Len(buffer)
    IN [data |-> SubSeq(buffer, 1, n), rest |-> SubSeq(buffer, n + 1, Len(buffer))]

\* recv_from, lines 280-285 (Socket::recv_from, 197-202): the bytes are
\* copied out and drained, the call returns
recv_return(o, len) ==
    /\ sock' = [sock EXCEPT ![o].receive_buffer = Drained(@, len).rest]
    /\ Returns("recv_from", o, "Ok", Drained(sock[o].receive_buffer, len).data)
    /\ recv' = None

\* recv_from(socket_id, buffer, timeout) is called: the registry lock and
\* the socket lock are taken and kept; the call returns at once when the
\* buffer holds data, else it starts to poll and yield
recv_from(socket_id, len) ==
    /\ ~net_hung
    /\ recv = None
    /\ LET o == SOCKETS[socket_id]
       IN IF sock[o].receive_buffer # <<>>
          THEN recv_return(o, len)
          ELSE /\ recv' = Some([o |-> o, registry |-> TRUE, len |-> len])
               /\ sock' = sock
               /\ sock_ret' = [op |-> "recv_from", o |-> o, ret |-> "waiting", data |-> <<>>]
               /\ net_hung' = FALSE
    /\ UNCHANGED <<SOCKETS, NEXT_SOCKET_ID, UDP_SOCKETS, outsideSockets>>

\* Socket::recv_from called by the owner of a socket outside the registry
Socket_recv_from_direct(o, len) ==
    /\ ~net_hung
    /\ recv = None
    /\ sock[o].owner = "task"
    /\ IF sock[o].socket_type # Dgram
       THEN /\ Returns("recv_from", o, "Operation not supported for TCP sockets", <<>>)
            /\ UNCHANGED <<sock, recv>>
       ELSE IF sock[o].receive_buffer # <<>>
       THEN recv_return(o, len)
       ELSE /\ recv' = Some([o |-> o, registry |-> FALSE, len |-> len])
            /\ sock' = sock
            /\ sock_ret' = [op |-> "recv_from", o |-> o, ret |-> "waiting", data |-> <<>>]
            /\ net_hung' = FALSE
    /\ UNCHANGED <<SOCKETS, NEXT_SOCKET_ID, UDP_SOCKETS, outsideSockets>>

\* the waiting task runs again after yield_now with the timeout over: one
\* more turn of the loop, lines 280-289 (197-207): data in the buffer is
\* returned, an empty buffer gives the timeout error
recv_resume ==
    /\ ~net_hung
    /\ recv # None
    /\ IF sock[recv[1].o].receive_buffer # <<>>
       THEN recv_return(recv[1].o, recv[1].len)
       ELSE /\ Returns("recv_from", recv[1].o, "Receive timeout", <<>>)
            /\ recv' = None
            /\ sock' = sock
    /\ UNCHANGED <<SOCKETS, NEXT_SOCKET_ID, UDP_SOCKETS, outsideSockets>>

\* find_socket_by_port: the first socket of the registry, in key order,
\* whose local port is the given one
find_socket_by_port(port) ==
    LET hits == {k \in RegistryKeys : sock[SOCKETS[k]].local_port = port}
    IN IF hits = {} THEN None
       ELSE Some(SOCKETS[CHOOSE k \in hits : \A j \in hits : k <= j])

\* a socket that takes datagrams from any source whatever it is connected to
takes_from_anyone(socket_object, src_ip) == TRUE

\* Socket::handle_udp_data, line 206: the source must be the remote address
\* when the socket has one
takes_from(socket_object, src_ip) ==
    socket_object.remote_addr = None \/ socket_object.remote_addr = Some(src_ip)

\* udp::handle_udp_packet with the callback that Socket::bind installed for
\* the port (lines 83-88): what it does to the sockets
udp_demux(port, src_ip, payload) ==
    /\ ~net_hung
    /\ \A o \in 1..Len(sock) : Len(sock[o].receive_buffer) + Len(payload) <= MaxBuffer
    /\ IF port \notin UDP_SOCKETS
       THEN /\ Returns("deliver", port, "no handler", payload)
            /\ sock' = sock
       ELSE IF Blocked_on_registry
       THEN Hangs("deliver", port) /\ sock' = sock
       ELSE LET found == find_socket_by_port(port)
            IN IF found # None /\ takes_from(sock[found[1]], src_ip)
               THEN /\ sock' = [sock EXCEPT ![found[1]].receive_buffer = @ \o payload]
                    /\ Returns("deliver", port, "appended", payload)
               ELSE /\ sock' = sock
                    /\ Returns("deliver", port, "dropped", payload)
    /\ UNCHANGED <<SOCKETS, NEXT_SOCKET_ID, UDP_SOCKETS, recv>>

\* udp::handle_udp_packet run for a datagram of the inbound path
handle_udp_packet(port, src_ip, payload) ==
    /\ udp_demux(port, src_ip, payload)
    /\ UNCHANGED outsideSockets

\* the registry, the id counter and the demux table at boot
Sockets_new ==
    /\ sock = <<>>
    /\ SOCKETS = <<>>
    /\ NEXT_SOCKET_ID = 1
    /\ UDP_SOCKETS = {}
    /\ recv = None
    /\ sock_ret = [op |-> "none", o |-> 0, ret |-> "none", data |-> <<>>]
    /\ net_hung = FALSE

(***************************************************************************)
(* network/arp.rs: the ARP cache                                           *)
(***************************************************************************)
ARP_CACHE_TIMEOUT == 300

\* the instants, in seconds since boot, at which the model looks at the cache
Instants == {0, 1, 299, 300, 301, 600}

MacAddresses == {"02:00:00:00:00:01", "02:00:00:00:00:02"}
Broadcast == "ff:ff:ff:ff:ff:ff"
ZeroMac == "00:00:00:00:00:00"

\* the interface network::init makes: the QEMU MAC, the address 0.0.0.0
interface == [mac_address |-> "52:54:00:12:34:56", ip_address |-> 0]

\* get_current_time: the placeholder of the source
get_current_time == 0

\* ArpPacket::new_request inside the EthernetFrame get_mac_address builds
ArpRequestFrame(ip) ==
    [destination |-> Broadcast, source |-> interface.mac_address,
     ethertype |-> "Arp", operation |-> "Request",
     sender_mac |-> interface.mac_address, sender_ip |-> interface.ip_address,
     target_mac |-> ZeroMac, target_ip |-> ip]

\* handle_arp_reply: the sender's entry is inserted or replaced
handle_arp_reply(sender_ip, sender_mac) ==
    /\ ARP_CACHE' = (sender_ip :> [mac_address |-> sender_mac, timestamp |-> get_current_time])
                       @@ ARP_CACHE
    /\ arp_inserted' = (sender_ip :> arp_clock) @@ arp_inserted
    /\ arp_sent' = <<>>
    /\ arp_ret' = [op |-> "handle_arp_reply", ip |-> sender_ip, ret |-> None, hangs |-> FALSE]
    /\ UNCHANGED <<arp_clock, outsideArp>>

\* get_mac_address(ip); interface_locked: the caller is send_ip, which runs
\* with NETWORK_INTERFACE locked
get_mac_address(ip, interface_locked) ==
    /\ ~arp_ret.hangs
    /\ IF ip \in DOMAIN ARP_CACHE
          /\ get_current_time - ARP_CACHE[ip].timestamp < ARP_CACHE_TIMEOUT
       THEN /\ arp_ret' = [op |-> "get_mac_address", ip |-> ip,
                           ret |-> Some(ARP_CACHE[ip].mac_address), hangs |-> FALSE]
            /\ arp_sent' = <<>>
            /\ UNCHANGED <<ARP_CACHE, arp_inserted>>
       ELSE /\ ARP_CACHE' = [i \in DOMAIN ARP_CACHE \ {ip} |-> ARP_CACHE[i]]
            /\ arp_inserted' = [i \in DOMAIN arp_inserted \ {ip} |-> arp_inserted[i]]
            /\ IF interface_locked
               THEN /\ arp_sent' = <<>>
                    /\ arp_ret' = [op |-> "get_mac_address", ip |-> ip,
                                   ret |-> None, hangs |-> TRUE]
               ELSE /\ arp_sent' = <<ArpRequestFrame(ip)>>
                    /\ arp_ret' = [op |-> "get_mac_address", ip |-> ip,
                                   ret |-> None, hangs |-> FALSE]
    /\ UNCHANGED <<arp_clock, outsideArp>>

\* time passes
seconds_pass ==
    /\ \E t \in Instants : t > arp_clock /\ arp_clock' = t
    /\ UNCHANGED <<ARP_CACHE, arp_inserted, arp_sent, arp_ret, outsideArp>>

\* the empty cache at boot
Arp_new ==
    /\ ARP_CACHE = <<>>
    /\ arp_clock = 0
    /\ arp_inserted = <<>>
    /\ arp_sent = <<>>
    /\ arp_ret = [op |-> "none", ip |-> 0, ret |-> None, hangs |-> FALSE]

(***************************************************************************)
(* network/mod.rs, ip.rs, udp.rs, icmp.rs: the inbound path                *)
(***************************************************************************)
Icmp == 1
Tcp == 6
Udp == 17

\* the two 16-bit words of the address 0.0.0.addr
as_words(addr) == <<0, addr>>

\* the 16-bit big-endian words of a byte string, the last one padded with 0
RECURSIVE chunks(_)
chunks(bytes) ==
    IF Len(bytes) = 0 THEN <<>>
    ELSE IF Len(bytes) = 1 THEN <<bytes[1] * 256>>
    ELSE <<bytes[1] * 256 + bytes[2]>> \o chunks(SubSeq(bytes, 3, Len(bytes)))

RECURSIVE Sum(_)
Sum(words) == IF words = <<>> THEN 0 ELSE Head(words) + Sum(Tail(words))

\* while (sum >> 16) != 0 { sum = (sum & 0xFFFF) + (sum >> 16) }
RECURSIVE fold_carry(_)
fold_carry(sum) ==
    IF sum \div 65536 # 0 THEN fold_carry((sum % 65536) + (sum \div 65536)) ELSE sum

\* !sum as u16
not_u16(sum) == 65535 - (sum % 65536)

\* the ten words of the IPv4 header IpPacket::to_bytes writes: version 4,
\* header length 5, ttl 64, no flags
ip_header(p, checksum) ==
    <<17664, p.total_length, p.identification, 0, 64 * 256 + p.protocol, checksum>>
        \o as_words(p.source) \o as_words(p.destination)

\* IpPacket::calculate_checksum over the header with the slot zeroed
ip_calculate_checksum(p) == not_u16(fold_carry(Sum(ip_header(p, 0))))

\* the IPv4 header verifies: the same sum over the received header,
\* checksum included, complements to zero
ip_header_verifies(p) == not_u16(fold_carry(Sum(ip_header(p, p.checksum)))) = 0

\* UdpPacket::to_bytes as words, for a datagram from port 9
udp_words(u, checksum) ==
    <<9, u.destination_port, 8 + Len(u.payload), checksum>> \o chunks(u.payload)

\* UdpPacket::calculate_checksum: pseudo header, then the packet with the
\* checksum zeroed
udp_calculate_checksum(u, source_ip, dest_ip) ==
    not_u16(fold_carry(Sum(as_words(source_ip) \o as_words(dest_ip)
                           \o <<Udp + 8 + Len(u.payload)>> \o udp_words(u, 0))))

\* UdpPacket::verify_checksum
verify_checksum(u, source_ip, dest_ip) ==
    u.checksum = udp_calculate_checksum(u, source_ip, dest_ip)

TCP_HEADER_LEN == 20
WINDOW_SIZE == 8192

\* TcpFlags::to_byte for the flags the connection sets
to_byte(segment) ==
    (IF segment.syn THEN 2 ELSE 0) + (IF segment.psh THEN 8 ELSE 0)
        + (IF segment.ack THEN 16 ELSE 0)

\* TcpSegment::to_bytes as 16-bit words, for a connection on local_port:
\* ports, the two numbers, data offset and flags, window, the checksum
\* bytes 16-17 (line 176 writes [0, 0]), urgent pointer, payload
TcpSegment_to_bytes(segment, local_port) ==
    << local_port, segment.destination_port,
       segment.sequence_number \div 65536, segment.sequence_number % 65536,
       segment.acknowledgment_number \div 65536, segment.acknowledgment_number % 65536,
       ((TCP_HEADER_LEN \div 4) * 16) * 256 + to_byte(segment),
       WINDOW_SIZE, 0, 0 >> \o chunks(segment.payload)

\* TcpSegment::calculate_checksum: the value it stores in self.checksum
TcpSegment_calculate_checksum(segment, source_ip, dest_ip, local_port) ==
    not_u16(fold_carry(Sum(as_words(source_ip) \o as_words(dest_ip)
                           \o <<Tcp, TCP_HEADER_LEN + Len(segment.payload)>>
                           \o TcpSegment_to_bytes(segment, local_port))))

\* a checksum with its lowest bit flipped
Corrupted(checksum) == IF checksum % 2 = 0 THEN checksum + 1 ELSE checksum - 1

\* what the IPv4 packet carries: a UDP datagram, a TCP segment, an ICMP
\* message
UdpBodies ==
    {[destination_port |-> port, payload |-> payload, checksum |-> 0, icmp_type |-> "none"] :
        port \in LocalPorts, payload \in Datagrams}
TcpBodies == {[destination_port |-> 0, payload |-> <<>>, checksum |-> 0, icmp_type |-> "none"]}
IcmpBodies ==
    {[destination_port |-> 0, payload |-> <<>>, checksum |-> 0, icmp_type |-> t] :
        t \in {"EchoRequest", "EchoReply", "DestinationUnreachable", "TimeExceeded"}}

\* IPv4 packets as they are before the checksums are filled in
Unsummed ==
    {[identification |-> i, protocol |-> pr, total_length |-> 20 + 8 + Len(b.payload),
      source |-> src, destination |-> interface.ip_address, checksum |-> 0, body |-> b] :
        i \in {0}, src \in Addresses,
        pr \in {Icmp, Tcp, Udp},
        b \in UdpBodies \cup TcpBodies \cup IcmpBodies}

WellFormed == {p \in Unsummed :
    \/ p.protocol = Udp /\ p.body \in UdpBodies
    \/ p.protocol = Tcp /\ p.body \in TcpBodies
    \/ p.protocol = Icmp /\ p.body \in IcmpBodies}

\* the UDP checksums a datagram can arrive with: the right one, none (zero),
\* a corrupted one
UdpChecksums(p) ==
    IF p.protocol = Udp
    THEN LET good == udp_calculate_checksum(p.body, p.source, p.destination)
         IN {good, 0, Corrupted(good)}
    ELSE {0}

\* the packets a frame of EtherType Ipv4 can bring in
InboundPackets ==
    UNION {{[p EXCEPT !.checksum = c, !.body.checksum = u] :
              c \in {ip_calculate_checksum(p), Corrupted(ip_calculate_checksum(p))},
              u \in UdpChecksums(p)} : p \in WellFormed}

\* NetworkInterface::receive for a frame of EtherType Ipv4: process_rx_buffer
\* parses the packet and hands its payload to the handler of its protocol;
\* the caller holds NETWORK_INTERFACE
NetworkInterface_receive(packet) ==
    /\ ~net_hung
    /\ IF packet.protocol = Udp
       THEN /\ udp_demux(packet.body.destination_port, packet.source, packet.body.payload)
            /\ rx' = [packet |-> Some(packet), handler |-> "handle_udp_packet", sent |-> <<>>]
       ELSE IF packet.protocol = Tcp
       THEN /\ rx' = [packet |-> Some(packet), handler |-> "handle_tcp_segment", sent |-> <<>>]
            /\ UNCHANGED sockVars
       ELSE /\ rx' = [packet |-> Some(packet), handler |-> "handle_icmp_packet", sent |-> <<>>]
            \* handle_icmp_packet, line 222: an EchoRequest makes it lock
            \* NETWORK_INTERFACE, which the caller of receive holds; the
            \* other types are printed
            /\ net_hung' = (packet.body.icmp_type = "EchoRequest")
            /\ UNCHANGED <<sock, SOCKETS, NEXT_SOCKET_ID, UDP_SOCKETS, recv, sock_ret>>
    /\ UNCHANGED outsideSocketsAndRx

\* nothing has come in
Rx_new == rx = [packet |-> None, handler |-> "none", sent |-> <<>>]

(***************************************************************************)
(* memory/mod.rs, allocator.rs: frames and address spaces                  *)
(***************************************************************************)
\* the number of the page at 0x400000
PROGRAM_BASE == 1024

\* the boot memory map, in units of 4 KiB frames
memory_map ==
    <<[start |-> 0, end |-> 3, usable |-> TRUE],
      [start |-> 3, end |-> 4, usable |-> FALSE],
      [start |-> 4, end |-> 10, usable |-> TRUE]>>

\* the frames start, start + 1, ..., end - 1
RECURSIVE step_by(_, _)
step_by(start, end) == IF start >= end THEN <<>> ELSE <<start>> \o step_by(start + 1, end)

\* usable_frames: the frames of the usable regions, in map order
RECURSIVE usable_frames_from(_)
usable_frames_from(i) ==
    IF i > Len(memory_map) THEN <<>>
    ELSE (IF memory_map[i].usable THEN step_by(memory_map[i].start, memory_map[i].end) ELSE <<>>)
            \o usable_frames_from(i + 1)
usable_frames == usable_frames_from(1)

\* BootInfoFrameAllocator::init
BootInfoFrameAllocator_init == [next |-> 0]

\* allocate_frame: the frame and the allocator after the call
allocate_frame(allocator) ==
    IF allocator.next >= Len(usable_frames)
    THEN [frame |-> None, allocator |-> allocator]
    ELSE [frame |-> Some(usable_frames[allocator.next + 1]),
          allocator |-> [allocator EXCEPT !.next = @ + 1]]

\* the state a mapping loop threads through its turns
Loop(allocator, table, present, got, mapped_now, ret) ==
    [allocator |-> allocator, page_table |-> table, tables |-> present,
     got |-> got, mapped |-> mapped_now, ret |-> ret]

\* the cleanup loop of load_program, lines 74-78: every page pushed to
\* allocated_frames in this call is unmapped where it is mapped
unmap_all(table, pages) == [pg \in DOMAIN table \ pages |-> table[pg]]

\* load_program, lines 61-94, from page i on; pushed: the pages pushed to
\* allocated_frames so far
RECURSIVE load_pages(_, _, _, _)
load_pages(i, num_pages, pushed, l) ==
    IF i >= num_pages THEN [l EXCEPT !.ret = "Ok"]
    ELSE LET a == allocate_frame(l.allocator)
             page == PROGRAM_BASE + i
         IN IF a.frame = None
            THEN [l EXCEPT !.ret = "Failed to allocate frame for program"]
            ELSE IF page \in DOMAIN l.page_table
            THEN \* map_to: PageAlreadyMapped
                 [l EXCEPT !.allocator = a.allocator,
                           !.got = @ \o <<a.frame[1]>>,
                           !.page_table = unmap_all(l.page_table, pushed \cup {page}),
                           !.ret = "Failed to map page"]
            ELSE LET t == IF l.tables THEN [frame |-> Some(0), allocator |-> a.allocator]
                          ELSE allocate_frame(a.allocator)
                 IN IF t.frame = None
                    THEN \* map_to: FrameAllocationFailed for a page table
                         [l EXCEPT !.allocator = t.allocator,
                                   !.got = @ \o <<a.frame[1]>>,
                                   !.page_table = unmap_all(l.page_table, pushed \cup {page}),
                                   !.ret = "Failed to map page"]
                    ELSE load_pages(i + 1, num_pages, pushed \cup {page},
                            [l EXCEPT !.allocator = t.allocator,
                                      !.got = @ \o <<a.frame[1]>>
                                                \o (IF l.tables THEN <<>> ELSE <<t.frame[1]>>),
                                      !.tables = TRUE,
                                      !.page_table = (page :> a.frame[1]) @@ @,
                                      !.mapped = @ \cup {page}])

\* init_heap, lines 56-64: one frame for each heap page, and with the first
\* page one frame for the page table that map_to makes
RECURSIVE heap_frames(_, _)
heap_frames(n, l) ==
    IF n = 0 THEN l
    ELSE LET a == allocate_frame(l.allocator)
             t == IF l.tables THEN [frame |-> Some(0), allocator |-> a.allocator]
                  ELSE allocate_frame(a.allocator)
         IN heap_frames(n - 1,
               [l EXCEPT !.allocator = t.allocator,
                         !.got = @ \o <<a.frame[1]>> \o (IF l.tables THEN <<>> ELSE <<t.frame[1]>>),
                         !.tables = TRUE])

Handed(by, frames) == [k \in 1..Len(frames) |-> [by |-> by, frame |-> frames[k]]]

\* _start, main.rs 121-128: the local allocator is made and init_heap runs
init_heap ==
    /\ ~heap_ready
    /\ LET l == heap_frames(HeapPages,
                   Loop(BootInfoFrameAllocator_init, <<>>, FALSE, <<>>, {}, "Ok"))
       IN /\ boot_allocator' = l.allocator
          /\ handed' = handed \o Handed("init_heap", l.got)
    /\ heap_ready' = TRUE
    /\ mem_ret' = [op |-> "init_heap", ret |-> "Ok", mapped |-> {}]
    /\ UNCHANGED <<FRAME_ALLOCATOR, page_table, tables, outsideMemory>>

\* init_frame_allocator(memory_map): call_once
init_frame_allocator ==
    /\ heap_ready
    /\ FRAME_ALLOCATOR = None
    /\ FRAME_ALLOCATOR' = Some(BootInfoFrameAllocator_init)
    /\ mem_ret' = [op |-> "init_frame_allocator", ret |-> "Ok", mapped |-> {}]
    /\ UNCHANGED <<boot_allocator, heap_ready, page_table, tables, handed, outsideMemory>>

\* Process::new: MemorySpace::new over the active level 4 table, then
\* load_program of a program of num_pages pages
load_program(num_pages) ==
    /\ heap_ready
    /\ IF FRAME_ALLOCATOR = None
       THEN /\ mem_ret' = [op |-> "MemorySpace::new", ret |-> "Frame allocator not initialized",
                           mapped |-> {}]
            /\ UNCHANGED <<FRAME_ALLOCATOR, page_table, tables, handed>>
       ELSE LET l == load_pages(0, num_pages, {},
                        Loop(FRAME_ALLOCATOR[1], page_table, tables, <<>>, {}, "Ok"))
            IN /\ FRAME_ALLOCATOR' = Some(l.allocator)
               /\ page_table' = l.page_table
               /\ tables' = l.tables
               /\ handed' = handed \o Handed("load_program", l.got)
               /\ mem_ret' = [op |-> "load_program", ret |-> l.ret, mapped |-> l.mapped]
    /\ UNCHANGED <<boot_allocator, heap_ready, outsideMemory>>

\* before _start reaches the memory management
Memory_new ==
    /\ boot_allocator = BootInfoFrameAllocator_init
    /\ FRAME_ALLOCATOR = None
    /\ heap_ready = FALSE
    /\ page_table = <<>>
    /\ tables = FALSE
    /\ handed = <<>>
    /\ mem_ret = [op |-> "none", ret |-> "Ok", mapped |-> {}]

(***************************************************************************)
(* allocator.rs: the heap statistics                                       *)
(***************************************************************************)
\* the contexts that can be inside track_allocation at the same time
Trackers == {1, 2}
Sizes == {1, 2}

Idle == [pc |-> "idle", current |-> 0, peak |-> 0]

\* track_allocation, line 118: ALLOCATED_BYTES.fetch_add(size)
track_allocation(p, size) ==
    /\ track[p].pc = "idle"
    /\ ALLOCATED_BYTES' = (ALLOCATED_BYTES + size) % UsizeSpace
    /\ track' = [track EXCEPT ![p].pc = "count"]
    /\ UNCHANGED <<ALLOCATION_COUNT, PEAK_MEMORY_USAGE, outsideStats>>

\* line 119: ALLOCATION_COUNT.fetch_add(1)
track_count(p) ==
    /\ track[p].pc = "count"
    /\ ALLOCATION_COUNT' = (ALLOCATION_COUNT + 1) % UsizeSpace
    /\ track' = [track EXCEPT ![p].pc = "load_current"]
    /\ UNCHANGED <<ALLOCATED_BYTES, PEAK_MEMORY_USAGE, outsideStats>>

\* line 120: current = ALLOCATED_BYTES.load()
track_load_current(p) ==
    /\ track[p].pc = "load_current"
    /\ track' = [track EXCEPT ![p].pc = "load_peak", ![p].current = ALLOCATED_BYTES]
    /\ UNCHANGED <<ALLOCATED_BYTES, ALLOCATION_COUNT, PEAK_MEMORY_USAGE, outsideStats>>

\* line 121: peak = PEAK_MEMORY_USAGE.load()
track_load_peak(p) ==
    /\ track[p].pc = "load_peak"
    /\ track' = [track EXCEPT ![p].pc = "cas", ![p].peak = PEAK_MEMORY_USAGE]
    /\ UNCHANGED <<ALLOCATED_BYTES, ALLOCATION_COUNT, PEAK_MEMORY_USAGE, outsideStats>>

\* lines 122-132: one turn of the compare_exchange_weak loop; the weak
\* exchange may also fail with the value it expected
track_cas(p) ==
    /\ track[p].pc = "cas"
    /\ IF track[p].current > track[p].peak
       THEN \/ /\ PEAK_MEMORY_USAGE = track[p].peak
               /\ PEAK_MEMORY_USAGE' = track[p].current
               /\ track' = [track EXCEPT ![p] = Idle]
            \/ /\ PEAK_MEMORY_USAGE' = PEAK_MEMORY_USAGE
               /\ track' = [track EXCEPT ![p].peak = PEAK_MEMORY_USAGE]
       ELSE /\ PEAK_MEMORY_USAGE' = PEAK_MEMORY_USAGE
            /\ track' = [track EXCEPT ![p] = Idle]
    /\ UNCHANGED <<ALLOCATED_BYTES, ALLOCATION_COUNT, outsideStats>>

\* track_deallocation: ALLOCATED_BYTES.fetch_sub(size)
track_deallocation(size) ==
    /\ ALLOCATED_BYTES' = (ALLOCATED_BYTES - size) % UsizeSpace
    /\ UNCHANGED <<ALLOCATION_COUNT, PEAK_MEMORY_USAGE, track, outsideStats>>

\* the statics of allocator.rs, lines 18-20
Stats_new ==
    /\ ALLOCATED_BYTES = 0
    /\ ALLOCATION_COUNT = 0
    /\ PEAK_MEMORY_USAGE = 0
    /\ track = [p \in Trackers |-> Idle]

(***************************************************************************)
(* keyboard.rs: the scancode queue                                         *)
(***************************************************************************)
Scancodes == {30, 31}

\* a push that makes room by dropping the oldest byte
push_over_oldest(queue, scancode) ==
    IF Len(queue) >= QUEUE_SIZE
    THEN [queue |-> Tail(queue) \o <<scancode>>, ok |-> TRUE]
    ELSE [queue |-> Append(queue, scancode), ok |-> TRUE]

\* queue.push(scancode) of line 57 on the ArrayQueue of capacity QUEUE_SIZE
push(queue, scancode) ==
    IF Len(queue) >= QUEUE_SIZE
    THEN [queue |-> queue, ok |-> FALSE]
    ELSE [queue |-> Append(queue, scancode), ok |-> TRUE]

\* KeyboardStream::new; kept: the caller keeps the stream (keyboard::init
\* drops it). A second call panics in expect.
KeyboardStream_new(kept) ==
    /\ ~kb_panic
    /\ IF SCANCODE_QUEUE = None
       THEN /\ SCANCODE_QUEUE' = Some(<<>>)
            /\ kb_stream' = kept
            /\ kb_panic' = FALSE
       ELSE /\ kb_panic' = TRUE
            /\ kb_stream' = FALSE
            /\ SCANCODE_QUEUE' = SCANCODE_QUEUE
    /\ kb_last' = [op |-> "new", full |-> FALSE]
    /\ UNCHANGED <<kb_accepted, kb_received, outsideKeyboard>>

\* add_scancode, called by the keyboard interrupt handler
add_scancode(scancode) ==
    /\ Len(kb_accepted) < MaxScancodes
    /\ IF SCANCODE_QUEUE = None
       THEN /\ kb_last' = [op |-> "add_scancode", full |-> FALSE]
            /\ UNCHANGED <<SCANCODE_QUEUE, kb_accepted>>
       ELSE LET r == push(SCANCODE_QUEUE[1], scancode)
            IN /\ SCANCODE_QUEUE' = Some(r.queue)
               /\ kb_accepted' = IF r.ok THEN Append(kb_accepted, scancode) ELSE kb_accepted
               /\ kb_last' = [op |-> "add_scancode", full |-> ~r.ok]
    /\ UNCHANGED <<kb_stream, kb_panic, kb_received, outsideKeyboard>>

\* KeyboardStream::poll_next: one pop
poll_next ==
    /\ kb_stream
    /\ ~kb_panic
    /\ IF SCANCODE_QUEUE[1] = <<>>
       THEN UNCHANGED <<SCANCODE_QUEUE, kb_received>>
       ELSE /\ SCANCODE_QUEUE' = Some(Tail(SCANCODE_QUEUE[1]))
            /\ kb_received' = Append(kb_received, Head(SCANCODE_QUEUE[1]))
    /\ kb_last' = [op |-> "poll_next", full |-> FALSE]
    /\ UNCHANGED <<kb_stream, kb_panic, kb_accepted, outsideKeyboard>>

\* the uninitialised OnceCell
Keyboard_new ==
    /\ SCANCODE_QUEUE = None
    /\ kb_stream = FALSE
    /\ kb_panic = FALSE
    /\ kb_accepted = <<>>
    /\ kb_received = <<>>
    /\ kb_last = [op |-> "none", full |-> FALSE]

(***************************************************************************)
(* The spin locks of the network stack and the order they are taken in     *)
(***************************************************************************)
Lock(name) == [lock |-> name, take |-> TRUE]
Unlock(name) == [lock |-> name, take |-> FALSE]

\* NetworkInterface::receive for a UDP datagram: the caller holds
\* NETWORK_INTERFACE; handle_udp_packet keeps UDP_SOCKETS locked while the
\* callback runs find_socket_by_port (SOCKETS, then each socket) and then
\* locks the socket it found
path_receive_udp ==
    <<Lock("NETWORK_INTERFACE"), Lock("UDP_SOCKETS"), Lock("SOCKETS"), Lock("socket"),
      Unlock("socket"), Unlock("SOCKETS"), Lock("socket"), Unlock("socket"),
      Unlock("UDP_SOCKETS"), Unlock("NETWORK_INTERFACE")>>

\* send_to(socket_id, ...): SOCKETS and the socket stay locked while
\* udp::send reads the interface address, then sends through the interface
\* and the driver
path_send_to ==
    <<Lock("SOCKETS"), Lock("socket"), Lock("NETWORK_INTERFACE"), Unlock("NETWORK_INTERFACE"),
      Lock("NETWORK_INTERFACE"), Lock("NETWORK_DRIVER"), Unlock("NETWORK_DRIVER"),
      Unlock("NETWORK_INTERFACE"), Unlock("socket"), Unlock("SOCKETS")>>

\* get_mac_address on a cache miss
path_get_mac_address ==
    <<Lock("ARP_CACHE"), Lock("NETWORK_INTERFACE"), Lock("NETWORK_DRIVER"),
      Unlock("NETWORK_DRIVER"), Unlock("NETWORK_INTERFACE"), Unlock("ARP_CACHE")>>

Paths == [receive_udp |-> path_receive_udp, send_to |-> path_send_to,
          get_mac_address |-> path_get_mac_address]

\* what runs where: the inbound path in interrupt context, the calls in tasks
Contexts == {"inbound", "task1", "task2"}
PathsOf(ctx) == IF ctx = "inbound" THEN {"receive_udp"} ELSE {"send_to", "get_mac_address"}

\* the locks a context holds after the first n steps of its path, in the
\* order it took them
RECURSIVE HeldAfter(_, _)
HeldAfter(path, n) ==
    IF n = 0 THEN <<>>
    ELSE LET before == HeldAfter(path, n - 1)
         IN IF path[n].take THEN Append(before, path[n].lock)
            ELSE SelectSeq(before, LAMBDA l : l # path[n].lock)

Held(ctx) ==
    IF lk_at[ctx].path = "none" THEN <<>>
    ELSE HeldAfter(Paths[lk_at[ctx].path], lk_at[ctx].pc - 1)

IsHeld(name) == \E ctx \in Contexts : \E k \in 1..Len(Held(ctx)) : Held(ctx)[k] = name

\* a context enters a path
path_start(ctx, path) ==
    /\ lk_at[ctx].path = "none"
    /\ lk_at' = [lk_at EXCEPT ![ctx] = [path |-> path, pc |-> 1]]
    /\ UNCHANGED outsideLocks

\* a context takes, or releases, the next lock of its path; a spin lock
\* that is held is not taken
path_step(ctx) ==
    /\ lk_at[ctx].path # "none"
    /\ LET path == Paths[lk_at[ctx].path]
           step == path[lk_at[ctx].pc]
       IN /\ step.take => ~IsHeld(step.lock)
          /\ lk_at' = [lk_at EXCEPT ![ctx] =
                          IF lk_at[ctx].pc = Len(path) THEN [path |-> "none", pc |-> 1]
                          ELSE [path |-> lk_at[ctx].path, pc |-> lk_at[ctx].pc + 1]]
    /\ UNCHANGED outsideLocks

\* no context is on a path
Locks_new == lk_at = [ctx \in Contexts |-> [path |-> "none", pc |-> 1]]

(***************************************************************************)
(* RwLock (task/sync.rs).  read() and write() return the guards of the     *)
(* inner spin::RwLock; dropping one releases the inner lock and does       *)
(* nothing else.                                                           *)
(***************************************************************************)
Readers == {p \in Procs : rw_at[p] = "reading"}
Writers == {p \in Procs : rw_at[p] = "writing"}

\* inner.try_read(): refused while a writer holds the lock
try_read == Writers = {}

\* inner.try_write(): refused while anyone holds the lock
try_write == Readers = {} /\ Writers = {}

\* RwLock::read up to its first wait: the guard, or a fresh waiter at the
\* back of read_waiters
RwLock_read(p) ==
    /\ rw_at[p] = "idle"
    /\ IF try_read
       THEN /\ rw_at' = [rw_at EXCEPT ![p] = "reading"]
            /\ UNCHANGED <<rw_flag, read_waiters>>
       ELSE /\ rw_at' = [rw_at EXCEPT ![p] = "wait_read"]
            /\ rw_flag' = [rw_flag EXCEPT ![p] = FALSE]
            /\ read_waiters' = Append(read_waiters, p)
    /\ UNCHANGED <<write_waiters, outsideRwLock>>

\* RwLock::write up to its first wait
RwLock_write(p) ==
    /\ rw_at[p] = "idle"
    /\ IF try_write
       THEN /\ rw_at' = [rw_at EXCEPT ![p] = "writing"]
            /\ UNCHANGED <<rw_flag, write_waiters>>
       ELSE /\ rw_at' = [rw_at EXCEPT ![p] = "wait_write"]
            /\ rw_flag' = [rw_flag EXCEPT ![p] = FALSE]
            /\ write_waiters' = Append(write_waiters, p)
    /\ UNCHANGED <<read_waiters, outsideRwLock>>

\* one turn of `while !waiter.load() { yield_now() }`: with the flag set the
\* outer loop starts again, otherwise the task yields and stays parked
RwLock_wait(p) ==
    /\ rw_at[p] \in {"wait_read", "wait_write"}
    /\ rw_at' = [rw_at EXCEPT ![p] = IF rw_flag[p] THEN "idle" ELSE @]
    /\ UNCHANGED <<rw_flag, read_waiters, write_waiters, outsideRwLock>>

\* a spin::RwLockReadGuard or RwLockWriteGuard is dropped
RwLockGuard_drop(p) ==
    /\ rw_at[p] \in {"reading", "writing"}
    /\ rw_at' = [rw_at EXCEPT ![p] = "idle"]
    /\ UNCHANGED <<rw_flag, read_waiters, write_waiters, outsideRwLock>>

\* RwLock::new
RwLock_new ==
    /\ rw_at = [p \in Procs |-> "idle"]
    /\ rw_flag = [p \in Procs |-> FALSE]
    /\ read_waiters = <<>>
    /\ write_waiters = <<>>

(***************************************************************************)
(* Spec: the scheduler; the semaphore stays as main.rs makes it            *)
(***************************************************************************)
\* everything but the scheduler and the semaphore, as constructed
Quiet == BlockingMutex_new /\ Condvar_new /\ TcpConnection_new /\ Sockets_new /\ Arp_new /\ Rx_new /\ Memory_new /\ Stats_new /\ Keyboard_new /\ Locks_new /\ RwLock_new

Init == Scheduler_new /\ Semaphore_new(1) /\ Quiet

Next ==
    \/ spawn
    \/ \E p \in Priorities : spawn_with_priority(p)
    \/ \E d \in Deadlines : spawn_with_deadline(d)
    \/ \E g \in GroupIds : spawn_in_group(g)
    \/ \E g \in GroupIds : suspend_group(g)
    \/ \E g \in GroupIds : resume_group(g)
    \/ schedule
    \/ yield_now
    \/ block_current
    \/ \E t \in TaskIds : unblock_task(t)
    \/ \E t \in TaskIds : reset_priority(t)
    \/ Tick

Spec == Init /\ [][Next]_vars

(***************************************************************************)
(* TimerSpec: tasks are spawned and the timer interrupt fires              *)
(***************************************************************************)
TimerInit == Scheduler_new /\ Semaphore_new(1) /\ Quiet

TimerNext ==
    \/ \E p \in Priorities : spawn_with_priority(p)
    \/ \E d \in Deadlines : spawn_with_deadline(d)
    \/ schedule
    \/ Tick
    \/ timer_interrupt_handler

TimerSpec == TimerInit /\ [][TimerNext]_vars

(***************************************************************************)
(* GroupSpec: tasks of Normal priority, some in a group that is suspended  *)
(* and resumed; schedule() keeps being called                              *)
(***************************************************************************)
GroupInit == Scheduler_new /\ Semaphore_new(1) /\ Quiet

GroupNext ==
    \/ spawn
    \/ \E g \in GroupIds : spawn_in_group(g)
    \/ \E g \in GroupIds : suspend_group(g)
    \/ \E g \in GroupIds : resume_group(g)
    \/ schedule

GroupSpec == GroupInit /\ [][GroupNext]_vars /\ WF_vars(schedule)

(***************************************************************************)
(* RwSpec: tasks reading and writing under one RwLock                      *)
(***************************************************************************)
RwInit == Scheduler_new /\ Semaphore_new(1) /\ Quiet

RwNext ==
    \E p \in Procs :
        \/ RwLock_read(p)
        \/ RwLock_write(p)
        \/ RwLock_wait(p)
        \/ RwLockGuard_drop(p)

RwSpec == RwInit /\ [][RwNext]_vars

(***************************************************************************)
(* StreamSpec: a task owns sockets, one of them a Stream socket, binds,    *)
(* connects and sends; segments of the peer come in                        *)
(***************************************************************************)
StreamInit == Scheduler_new /\ Semaphore_new(1) /\ Quiet

StreamNext ==
    \/ \E socket_type \in SocketTypes :
          /\ socket_type = Stream => \A o \in 1..Len(sock) : sock[o].socket_type # Stream
          /\ Socket_new_direct(socket_type)
    \/ \E o \in 1..Len(sock), addr \in Addresses, port \in LocalPorts :
          Socket_bind_direct(o, addr, port)
    \/ \E o \in 1..Len(sock), addr \in Addresses, port \in Ports :
          Socket_connect_stream(o, addr, port)
    \/ \E o \in 1..Len(sock), addr \in Addresses, port \in LocalPorts :
          Socket_connect_dgram(o, addr, port)
    \/ \E o \in 1..Len(sock), data \in Payloads : Socket_send_stream(o, data)
    \/ \E segment \in Segments :
          /\ segment.syn /\ segment.ack /\ segment.payload = <<>>
          /\ handle_tcp_segment(segment)

StreamSpec == StreamInit /\ [][StreamNext]_vars

(***************************************************************************)
(* SemSpec: tasks calling acquire() and release() on one semaphore         *)
(***************************************************************************)
SemInit ==
    /\ Scheduler_new /\ Quiet
    /\ \E initial \in 0..MaxInitial : Semaphore_new(initial)

SemNext ==
    \E p \in Procs :
        \/ acquire_call(p)
        \/ acquire_load(p)
        \/ acquire_take(p)
        \/ acquire_park(p)
        \/ acquire_woken(p)
        \/ release_add(p)
        \/ release_wake(p)

SemSpec == SemInit /\ [][SemNext]_vars

(***************************************************************************)
(* SyncSpec: tasks using one BlockingMutex and one Condvar                 *)
(***************************************************************************)
SyncInit == Scheduler_new /\ Semaphore_new(1) /\ Quiet

SyncNext ==
    \E p \in Procs :
        \/ lock_call(p)
        \/ lock_try(p)
        \/ lock_park(p)
        \/ lock_woken(p)
        \/ guard_drop(p)
        \/ unlock_next(p)
        \/ wait_call(p)
        \/ wait_unlock(p)
        \/ wait_woken(p)
        \/ wait_return(p)
        \/ notify_one(p)
        \/ notify_all(p)

SyncSpec == SyncInit /\ [][SyncNext]_vars

(***************************************************************************)
(* TcpSpec: one TcpConnection, its API calls and the segments of a peer    *)
(***************************************************************************)
TcpInit == Scheduler_new /\ Semaphore_new(1) /\ Quiet

TcpNext ==
    \/ \E remote_port \in Ports : TcpConnection_connect(remote_port)
    \/ start_listen
    \/ \E data \in Payloads : TcpConnection_send(data)
    \/ \E segment \in Segments : handle_segment(segment)

TcpSpec == TcpInit /\ [][TcpNext]_vars

(***************************************************************************)
(* SockSpec: tasks using sockets, and the inbound path delivering          *)
(* datagrams                                                               *)
(***************************************************************************)
SockInit == Scheduler_new /\ Semaphore_new(1) /\ Quiet

SockNext ==
    \/ \E socket_type \in SocketTypes : Socket_new_direct(socket_type)
    \/ \E socket_type \in SocketTypes : socket(socket_type)
    \/ \E socket_id \in RegistryKeys, addr \in Addresses, port \in LocalPorts :
          bind(socket_id, addr, port)
    \/ \E o \in 1..Len(sock), addr \in Addresses, port \in LocalPorts :
          Socket_bind_direct(o, addr, port)
    \/ \E o \in 1..Len(sock), addr \in Addresses, port \in LocalPorts :
          Socket_connect_dgram(o, addr, port)
    \/ \E socket_id \in RegistryKeys : close(socket_id)
    \/ \E socket_id \in RegistryKeys, len \in BufferLengths : recv_from(socket_id, len)
    \/ \E o \in 1..Len(sock), len \in BufferLengths : Socket_recv_from_direct(o, len)
    \/ recv_resume
    \/ \E port \in LocalPorts, src_ip \in Addresses, payload \in Datagrams :
          handle_udp_packet(port, src_ip, payload)

SockSpec == SockInit /\ [][SockNext]_vars

(***************************************************************************)
(* ArpSpec: ARP replies arrive, addresses are resolved, time passes        *)
(***************************************************************************)
ArpInit == Scheduler_new /\ Semaphore_new(1) /\ Quiet

ArpNext ==
    \/ \E sender_ip \in Addresses, sender_mac \in MacAddresses :
          handle_arp_reply(sender_ip, sender_mac)
    \/ \E ip \in Addresses, interface_locked \in BOOLEAN :
          get_mac_address(ip, interface_locked)
    \/ seconds_pass

ArpSpec == ArpInit /\ [][ArpNext]_vars

(***************************************************************************)
(* RxSpec: sockets are made and bound, IPv4 packets come in                *)
(***************************************************************************)
RxInit == Scheduler_new /\ Semaphore_new(1) /\ Quiet

RxNext ==
    \/ \E socket_type \in SocketTypes : Socket_new_direct(socket_type)
    \/ \E socket_type \in SocketTypes : socket(socket_type)
    \/ \E o \in 1..Len(sock), addr \in Addresses, port \in LocalPorts :
          Socket_bind_direct(o, addr, port)
    \/ \E packet \in InboundPackets : NetworkInterface_receive(packet)

RxSpec == RxInit /\ [][RxNext]_vars

(***************************************************************************)
(* MemSpec: boot, then processes are made                                  *)
(***************************************************************************)
MemInit == Scheduler_new /\ Semaphore_new(1) /\ Quiet

MemNext ==
    \/ init_heap
    \/ init_frame_allocator
    \/ \E num_pages \in 0..MaxProgramPages : load_program(num_pages)

MemSpec == MemInit /\ [][MemNext]_vars

(***************************************************************************)
(* StatSpec: allocations and deallocations are tracked concurrently        *)
(***************************************************************************)
StatInit == Scheduler_new /\ Semaphore_new(1) /\ Quiet

StatNext ==
    \/ \E p \in Trackers, size \in Sizes : track_allocation(p, size)
    \/ \E p \in Trackers : track_count(p)
    \/ \E p \in Trackers : track_load_current(p)
    \/ \E p \in Trackers : track_load_peak(p)
    \/ \E p \in Trackers : track_cas(p)
    \/ \E size \in Sizes : track_deallocation(size)

StatSpec == StatInit /\ [][StatNext]_vars

(***************************************************************************)
(* KbSpec: the keyboard interrupt pushes, a consumer polls                 *)
(***************************************************************************)
KbInit == Scheduler_new /\ Semaphore_new(1) /\ Quiet

KbNext ==
    \/ \E kept \in BOOLEAN : KeyboardStream_new(kept)
    \/ \E scancode \in Scancodes : add_scancode(scancode)
    \/ poll_next

KbSpec == KbInit /\ [][KbNext]_vars

(***************************************************************************)
(* LockSpec: tasks and the inbound path take the locks of their paths      *)
(***************************************************************************)
LockInit == Scheduler_new /\ Semaphore_new(1) /\ Quiet

LockNext ==
    \/ \E ctx \in Contexts : \E path \in PathsOf(ctx) : path_start(ctx, path)
    \/ \E ctx \in Contexts : path_step(ctx)

LockSpec == LockInit /\ [][LockNext]_vars

(***************************************************************************)
(* Properties of the scheduler                                             *)
(***************************************************************************)
RECURSIVE CountIn(_, _)
CountIn(seq, t) ==
    IF seq = <<>> THEN 0
    ELSE (IF Head(seq) = t THEN 1 ELSE 0) + CountIn(Tail(seq), t)

\* how often a task occurs in the three run queues and the current slot
Occurrences(q, c, t) == CountIn(queued(q), t) + (IF c = Some(t) THEN 1 ELSE 0)

\* the step is a call of the named operation (every step sets last)
Called(op) == last'.op = op

\* the step is a call of schedule(), directly or through yield_now
ScheduleCall == Called("schedule") \/ Called("yield_now")

\* the remaining slice of the current task is used up by this call
SliceUsedUp == arena[current[1]].time_slice \in {0, 1}

\* C1: after any sequence of scheduler operations no task occurs more than
\* once in total across the three run queues and the current slot.
C1_NoTaskTwice ==
    \A t \in TaskIds : Occurrences(tasks, current, t) <= 1

\* C2: current together with the contents of the run queues is exactly the
\* set of tasks that are neither Terminated, Blocked nor Suspended.
C2_QueuesHoldTheRunnable ==
    {t \in TaskIds : Occurrences(tasks, current, t) > 0}
        = {t \in TaskIds : arena[t].state \notin {Terminated, Blocked, Suspended}}

InstallsFromQueue ==
    /\ ScheduleCall
    /\ IF current = None THEN TRUE ELSE SliceUsedUp
    /\ current' # None

\* C4: whenever schedule() installs a task taken from the run queues, no
\* Ready task waiting in a run queue has a strictly higher priority than the
\* installed task, deadline boosts included.
C4_InstalledHasTopPriority ==
    [][ InstallsFromQueue
        => \A t \in TaskIds :
              (InQueue(tasks', t) /\ arena'[t].state = Ready)
              => arena'[t].priority <= arena'[current'[1]].priority ]_vars

\* C5: with tasks of Normal priority only, each yield_now hands the CPU to
\* the next task in FIFO order (so that three tasks counting their turns stay
\* within one of each other).
C5_YieldHandsOverInFifoOrder ==
    [][ ( /\ Called("yield_now")
          /\ tasks[Normal] # <<>>
          /\ tasks[Low] = <<>> /\ tasks[High] = <<>>
          /\ \A t \in TaskIds : /\ arena[t].priority = Normal
                                /\ arena[t].state \in {Ready, Running} )
        => cpu' = Some(Head(tasks[Normal])) ]_vars

\* C6: block_current marks the caller Blocked and takes the CPU from it; a
\* Blocked task is not pushed onto a run queue, not made Ready or Running and
\* not returned by schedule() until unblock_task is called for it.
C6_BlockedStaysOffCpu ==
    [][ /\ (Called("block_current") /\ current # None)
           => /\ arena'[current[1]].state = Blocked
              /\ current' # current
        /\ \A t \in TaskIds :
              (ScheduleCall /\ arena[t].state = Blocked)
              => /\ arena'[t].state = Blocked
                 /\ current' # Some(t)
                 /\ CountIn(queued(tasks'), t) <= CountIn(queued(tasks), t) ]_vars

\* C8: after suspend_group(g) followed by resume_group(g) every member of g
\* that is not Terminated is Ready.
C8_SuspendResumeLeavesReady ==
    last.op = "suspend_resume"
    => \A t \in Members(last.g[1]) :
          arena[t].state # Terminated => arena[t].state = Ready

\* suspend_group; resume_group on a group with the running task and a queued
\* task among its members
C8_Witness ==
    /\ last.op = "suspend_resume"
    /\ current # None
    /\ current[1] \in Members(last.g[1])
    /\ \E t \in Members(last.g[1]) : t # current[1] /\ InQueue(tasks, t)

\* C9: the task held in current has time_slice > 0, a task that schedule()
\* pushes back onto a run queue has its time_slice reset to its quantum, and
\* the counter never wraps below zero.
C9_SliceWhileOnCpu ==
    /\ [](current # None => arena[current[1]].time_slice > 0)
    /\ [](\A t \in TaskIds : arena[t].time_slice >= 0)
    /\ [][ (ScheduleCall /\ current # None /\ SliceUsedUp /\ current' # current
             /\ InQueue(tasks', current[1]))
           => arena'[current[1]].time_slice = arena'[current[1]].quantum ]_vars

\* C10: base_priority is the priority the task was spawned with and never
\* changes; priority changes only by a one-level boost upward or by
\* reset_priority, which sets it to the base priority.
C10_BasePriorityIsSpawnPriority ==
    [][ /\ \A p \in Priorities :
              spawn_with_priority(p) => arena'[next_id].base_priority = p
        /\ \A t \in TaskIds :
              /\ arena'[t].base_priority = arena[t].base_priority
              /\ arena'[t].priority # arena[t].priority
                 => \/ arena'[t].priority = arena[t].priority + 1
                    \/ arena'[t].priority = arena[t].base_priority ]_vars

\* C11: whenever all three run queues are empty and a current task exists,
\* schedule() returns that same task and leaves it installed as current.
C11_ScheduleKeepsCurrent ==
    [][ (ScheduleCall /\ current # None /\ queued(tasks) = <<>>)
        => current' = current ]_vars

(***************************************************************************)
(* Properties of the semaphore                                             *)
(***************************************************************************)
\* C7: an acquire() called at count 0 does not return before another task
\* has called release(); a release() sets the flag of exactly one parked
\* waiter, the head of the waiter list, and nothing else sets a flag.
C7_AcquireWaitsReleaseWakesHead ==
    [][ \A p \in Procs :
          /\ acquire_take(p) => ~owed[p]
          /\ (release_wake(p) /\ waiters # <<>>)
             => /\ pc[Head(waiters)] = "wait"
                /\ ~flag[Head(waiters)]
                /\ flag' = [flag EXCEPT ![Head(waiters)] = TRUE]
                /\ waiters' = Tail(waiters)
          /\ (~flag[p] /\ flag'[p])
             => \E q \in Procs \ {p} : release_wake(q) ]_vars

\* two tasks were parked at count 0; a release has woken the one that parked
\* first and the other is still parked
C7_Witness ==
    \E p, q \in Procs :
        /\ p # q
        /\ pc[p] = "wait" /\ flag[p] /\ owed[p] = FALSE
        /\ pc[q] = "wait" /\ ~flag[q] /\ waiters = <<q>>

(***************************************************************************)
(* Properties of the mutex and the condition variable                      *)
(***************************************************************************)
\* C12: when the holder of a BlockingMutex drops its guard while other tasks
\* are parked in lock(), the flag of the head waiter is set.
C12_GuardDropWakesHead ==
    [][ \A p \in Procs :
          (guard_drop(p) /\ mutex_waiters # <<>>)
          => lock_flag'[Head(mutex_waiters)] ]_vars

\* C13: Condvar::wait enqueues a waiter, releases the mutex while it waits,
\* ends its wait only after notify_one or notify_all has set its flag, and
\* on return the mutex is locked for the caller.
C13_WaitReturnsHoldingMutex ==
    [][ \A p \in Procs :
          /\ wait_call(p) => condvar_waiters' = Append(condvar_waiters, p)
          /\ wait_unlock(p) => ~inner'
          /\ (~wait_flag[p] /\ wait_flag'[p])
             => \E q \in Procs \ {p} : notify_one(q) \/ notify_all(q)
          /\ wait_return(p) => inner' ]_vars

(***************************************************************************)
(* Properties of the TCP connection                                        *)
(***************************************************************************)
\* a segment that carries nothing but an acknowledgment
IsAck(segment, sequence_number, acknowledgment_number) ==
    /\ segment.ack /\ ~segment.syn /\ ~segment.psh
    /\ segment.payload = <<>>
    /\ segment.sequence_number = sequence_number
    /\ segment.acknowledgment_number = acknowledgment_number

\* what handle_segment makes of a segment in the present state
Taken(segment) == handle_segment_result(conn, segment)

C15_PassiveOpen ==
    \A segment \in Segments :
        /\ (conn.state = "Listen" /\ segment.syn)
           => /\ Len(Taken(segment).wire) = 1
              /\ Taken(segment).wire[1].syn /\ Taken(segment).wire[1].ack
              /\ Taken(segment).wire[1].acknowledgment_number
                    = (segment.sequence_number + 1) % SeqSpace
              /\ Taken(segment).conn.sequence_number
                    = (conn.sequence_number + 1) % SeqSpace
              /\ Taken(segment).conn.state = "SynReceived"
        /\ (conn.state = "SynReceived" /\ segment.ack
              /\ segment.acknowledgment_number = conn.sequence_number)
           => Taken(segment).conn.state = "Established"

EndpointTaken(o, addr, port) ==
    \/ \E other \in Registered \ {o} :
          sock[other].local_addr = addr /\ sock[other].local_port = port
    \/ sock[o].socket_type = Dgram /\ port \in UDP_SOCKETS

\* C17: bind(id, ip, port) on a socket of the registry that is Closed
\* returns Ok with (ip, port) recorded as the local endpoint when the
\* endpoint is free, and an address-in-use error with the socket's local
\* endpoint, the registry and the UDP demux table unchanged when it is taken.
C17_BindRecordsOrRefuses ==
    [][\A socket_id \in RegistryKeys, addr \in Addresses, port \in LocalPorts :
          (bind(socket_id, addr, port) /\ sock[SOCKETS[socket_id]].state = "Closed")
          => LET o == SOCKETS[socket_id]
             IN IF EndpointTaken(o, addr, port)
                THEN /\ sock_ret'.ret \in {"Address already in use", "Port already in use"}
                     /\ sock'[o].local_addr = sock[o].local_addr
                     /\ sock'[o].local_port = sock[o].local_port
                     /\ SOCKETS' = SOCKETS
                     /\ UDP_SOCKETS' = UDP_SOCKETS
                ELSE /\ sock_ret'.ret = "Ok"
                     /\ sock'[o].local_addr = addr
                     /\ sock'[o].local_port = port
      ]_vars

\* C18: a datagram delivered for the bound port of the Dgram socket a task
\* is waiting on in recv_from, from a source the socket takes, is appended
\* to that socket's receive buffer, and the waiting call then returns those
\* bytes; no call and no delivery hangs.
C18_DeliveredWhileWaiting ==
    [][ /\ (/\ recv # None
            /\ sock_ret'.op = "deliver"
            /\ sock[recv[1].o].socket_type = Dgram
            /\ sock[recv[1].o].local_port = sock_ret'.o
            /\ sock_ret'.o \in UDP_SOCKETS
            /\ sock[recv[1].o].remote_addr = None)
           => /\ ~net_hung'
              /\ sock'[recv[1].o].receive_buffer
                    = sock[recv[1].o].receive_buffer \o sock_ret'.data
        /\ (recv # None /\ recv' = None)
           => sock_ret'.ret \in {"Ok", "Receive timeout"}
        /\ (recv # None /\ recv' = None /\ sock[recv[1].o].receive_buffer # <<>>)
           => sock_ret'.ret = "Ok" /\ sock_ret'.data # <<>>
      ]_vars


(***************************************************************************)
(* Properties of the ARP cache (ArpSpec)                                   *)
(***************************************************************************)
\* C19: get_mac_address(ip) with an entry for ip inserted at second t0,
\* called at second t by a caller that does not hold the interface, returns
\* the stored MAC and emits nothing when t - t0 < 300; otherwise it removes
\* the entry, emits exactly one broadcast ARP Request from the interface for
\* ip and returns None.
C19_EntryLivesFor300Seconds ==
    [][\A ip \in DOMAIN ARP_CACHE :
          (arp_ret'.op = "get_mac_address" /\ arp_ret'.ip = ip /\ ~arp_ret'.hangs)
          => IF arp_clock - arp_inserted[ip] < ARP_CACHE_TIMEOUT
             THEN /\ arp_ret'.ret = Some(ARP_CACHE[ip].mac_address)
                  /\ arp_sent' = <<>>
             ELSE /\ ip \notin DOMAIN ARP_CACHE'
                  /\ arp_sent' = <<ArpRequestFrame(ip)>>
                  /\ arp_ret'.ret = None
      ]_vars


(***************************************************************************)
(* Properties of the inbound path (RxSpec)                                 *)
(***************************************************************************)
\* the packet's IPv4 header checksum does not verify, or it carries a UDP
\* datagram whose checksum is not zero and does not verify
BadChecksum(p) ==
    \/ ~ip_header_verifies(p)
    \/ /\ p.protocol = Udp
       /\ p.body.checksum # 0
       /\ ~verify_checksum(p.body, p.source, p.destination)

\* C20: an inbound packet whose IPv4 header checksum does not verify, or
\* whose non-zero UDP checksum does not verify, gets no ICMP, TCP or UDP
\* handler and no demux callback, changes no receive buffer and makes
\* nothing hang.
C20_BadChecksumDropped ==
    [][(rx' # rx /\ BadChecksum(rx'.packet[1]))
          => /\ rx'.handler = "none"
             /\ sock' = sock
             /\ sock_ret' = sock_ret
             /\ net_hung' = net_hung
      ]_vars


\* C21: an inbound ICMP EchoRequest for the local IP is processed to the
\* end and exactly one buffer, the EchoReply to its sender, is handed to
\* the driver; the other ICMP types are processed to the end with nothing
\* handed to the driver.
C21_EchoRequestAnswered ==
    [][(rx' # rx /\ rx'.packet[1].protocol = Icmp)
          => /\ ~net_hung'
             /\ IF rx'.packet[1].body.icmp_type = "EchoRequest"
                THEN /\ Len(rx'.sent) = 1
                     /\ rx'.sent[1].icmp_type = "EchoReply"
                     /\ rx'.sent[1].destination = rx'.packet[1].source
                ELSE rx'.sent = <<>>
      ]_vars


(***************************************************************************)
(* Properties of what reaches the driver                                   *)
(***************************************************************************)
\* the buffer starts with an Ethernet header: destination MAC, source MAC,
\* EtherType
IsEthernetFrame(buffer) == {"destination", "source", "ethertype"} \subseteq DOMAIN buffer

\* C22: every buffer a TCP connection hands to the driver's send is an
\* Ethernet frame of EtherType Ipv4 with the segment inside an IPv4 packet.
C22_DriverGetsEthernetFrames ==
    \A i \in 1..Len(wire) :
        /\ IsEthernetFrame(wire[i])
        /\ wire[i].ethertype = "Ipv4"
        /\ "protocol" \in DOMAIN wire[i]


(***************************************************************************)
(* Properties of the memory management (MemSpec)                           *)
(***************************************************************************)
\* C23: the frames allocate_frame has returned during the boot are pairwise
\* distinct, whichever component asked for them, and an allocator that has
\* returned nothing has no frame left to return.
C23_NoFrameTwice ==
    /\ \A j, k \in 1..Len(handed) : handed[j].frame = handed[k].frame => j = k
    /\ (mem_ret.ret = "Failed to allocate frame for program"
          => allocate_frame(FRAME_ALLOCATOR[1]).frame = None)

\* C24: a load_program that returns an error leaves none of the pages it
\* mapped in the address space.
C24_LoadIsAllOrNothing ==
    (mem_ret.op = "load_program" /\ mem_ret.ret # "Ok")
        => mem_ret.mapped \cap DOMAIN page_table = {}


(***************************************************************************)
(* Properties of the heap statistics (StatSpec)                            *)
(***************************************************************************)
\* C25: at all times allocated_bytes <= peak_memory_usage, and
\* peak_memory_usage never decreases.
C25_AllocatedAtMostPeak ==
    /\ [](ALLOCATED_BYTES <= PEAK_MEMORY_USAGE)
    /\ [][PEAK_MEMORY_USAGE' >= PEAK_MEMORY_USAGE]_vars


(***************************************************************************)
(* Properties of the scancode queue (KbSpec)                               *)
(***************************************************************************)
\* C26: the queue never holds more than QUEUE_SIZE bytes, a push on a full
\* queue leaves its content unchanged, and what the consumer has received
\* followed by what the queue holds is the accepted bytes in push order.
C26_BoundedFifo ==
    /\ [](SCANCODE_QUEUE # None
            => /\ Len(SCANCODE_QUEUE[1]) <= QUEUE_SIZE
               /\ kb_received \o SCANCODE_QUEUE[1] = kb_accepted)
    /\ [][(kb_last'.op = "add_scancode" /\ SCANCODE_QUEUE # None
             /\ Len(SCANCODE_QUEUE[1]) = QUEUE_SIZE)
            => SCANCODE_QUEUE' = SCANCODE_QUEUE /\ kb_last'.full]_vars

\* C26 witness: the consumer has received two different bytes and a push
\* has just been dropped on the full queue
C26_Witness ==
    /\ kb_last.op = "add_scancode"
    /\ kb_last.full
    /\ Len(kb_received) >= 2
    /\ kb_received[1] # kb_received[2]


(***************************************************************************)
(* Properties of the lock order (LockSpec)                                 *)
(***************************************************************************)
\* the place of a lock in the fixed order: socket registry, socket, then
\* the transport-level locks
Level(name) ==
    CASE name = "SOCKETS" -> 3
      [] name = "socket" -> 4
      [] OTHER -> 5

\* the context waits for a lock another context holds
WaitsFor(ctx, other) ==
    /\ lk_at[ctx].path # "none"
    /\ Paths[lk_at[ctx].path][lk_at[ctx].pc].take
    /\ \E k \in 1..Len(Held(other)) :
          Held(other)[k] = Paths[lk_at[ctx].path][lk_at[ctx].pc].lock

\* C27: every context holds its locks in the fixed order (registry, socket,
\* transport level), and no two contexts wait for a lock of each other.
C27_FixedLockOrder ==
    /\ \A ctx \in Contexts : \A j, k \in 1..Len(Held(ctx)) :
          j < k => Level(Held(ctx)[j]) <= Level(Held(ctx)[k])
    /\ \A ctx, other \in Contexts :
          ctx # other => ~(WaitsFor(ctx, other) /\ WaitsFor(other, ctx))


(***************************************************************************)
(* Properties of socket ids (SockSpec)                                     *)
(***************************************************************************)
\* C28: the key under which socket() stores a new socket is greater than
\* every id handed out before, and it is the stored socket's own id field.
C28_IdIsKeyAndField ==
    [][\A id \in (DOMAIN SOCKETS') \ (DOMAIN SOCKETS) :
          /\ id >= NEXT_SOCKET_ID
          /\ sock'[SOCKETS'[id]].id = id]_vars


(***************************************************************************)
(* Properties of the deadline boost (Spec)                                 *)
(***************************************************************************)
\* the task's deadline is earlier than the current time
DeadlinePassed(t) == arena[t].deadline # None /\ arena[t].deadline[1] < now

\* C29: a schedule() call raises the priority of each queued task whose
\* deadline has passed by exactly one level (High stays High) and leaves the
\* priority of every other queued task as it was.
C29_ExpiredDeadlineBoostsOneLevel ==
    [][ (ScheduleCall \/ Called("block_current"))
        => \A t \in TaskIds :
              InQueue(tasks, t)
              => arena'[t].priority =
                    IF DeadlinePassed(t) /\ arena[t].priority # High
                    THEN arena[t].priority + 1
                    ELSE arena[t].priority ]_vars

\* C29 witness: a schedule() call has just boosted a queued task whose
\* deadline had passed, while another queued task kept its priority
C29_Witness ==
    /\ last.op = "schedule"
    /\ \E t, u \in TaskIds :
          /\ InQueue(tasks, t) /\ arena[t].deadline # None /\ arena[t].deadline[1] < now
          /\ arena[t].priority = High /\ arena[t].base_priority = Normal
          /\ InQueue(tasks, u) /\ arena[u].deadline = None
          /\ arena[u].priority = arena[u].base_priority


(***************************************************************************)
(* Properties of the timer interrupt handler (TimerSpec)                   *)
(***************************************************************************)
\* C30: the timer handler signals end-of-interrupt before it asks the
\* scheduler, yields only when schedule() selected a task other than the
\* interrupted one, and does not hold the scheduler lock when it yields.
C30_YieldsOnlyForAnotherTask ==
    (last.op = "timer")
    => /\ last.eoi_first
       /\ last.yielded => (last.selected # last.was /\ ~last.locked_at_yield)


\* C31: a timer tick that interrupts a task with more than one unit of time
\* slice left consumes exactly one unit and leaves the task running on the
\* CPU.
C31_TickConsumesOneUnit ==
    [][ (last'.op = "timer" /\ current # None /\ arena[current[1]].time_slice > 1)
        => /\ current' = current
           /\ arena'[current[1]].time_slice = arena[current[1]].time_slice - 1
           /\ ~hung' ]_vars


(***************************************************************************)
(* Properties of the TCP checksum (TcpSpec)                                *)
(***************************************************************************)
\* C32: every segment the connection hands to the driver carries in bytes
\* 16-17 the checksum computed over pseudo-header, header and payload,
\* whatever the addresses and the local port of the connection.
C32_SegmentCarriesChecksum ==
    \A i \in 1..Len(wire) :
        \A source_ip \in Addresses, dest_ip \in Addresses, local_port \in LocalPorts :
            TcpSegment_to_bytes(wire[i], local_port)[9]
                = TcpSegment_calculate_checksum(wire[i], source_ip, dest_ip, local_port)


\* the call fails without effect: an error, no segment, the connection as
\* it was
FailsWithoutEffect == tcp_ret' = "Err" /\ wire' = <<>> /\ conn' = conn

\* C33: connect() and start_listen() on a connection that is not Closed and
\* send() on a connection that is not Established return an error, emit no
\* segment and leave the connection unchanged.
C33_WrongStateCallFails ==
    [][ /\ ((\E remote_port \in Ports : TcpConnection_connect(remote_port))
              /\ conn.state # "Closed") => FailsWithoutEffect
        /\ (start_listen /\ conn.state # "Closed") => FailsWithoutEffect
        /\ ((\E data \in Payloads : TcpConnection_send(data))
              /\ conn.state # "Established") => FailsWithoutEffect ]_vars

\* C33 witness: a call has just failed on a connection in the middle of its
\* handshake, with its numbers and remote port in place
C33_Witness ==
    /\ tcp_ret = "Err" /\ wire = <<>>
    /\ conn.state = "SynSent" /\ conn.remote_port = 80 /\ conn.sequence_number = 1


(***************************************************************************)
(* Properties of the context switch (Spec)                                 *)
(***************************************************************************)
\* C34: no call of yield_now hangs: the call ends with the CPU free to go
\* on, never spinning on a lock its own path holds.
C34_YieldNeverHangs ==
    [][ Called("yield_now") => ~hung' ]_vars


(***************************************************************************)
(* Properties of group suspension (GroupSpec)                              *)
(***************************************************************************)
\* resume_group has just taken the task out of the Suspended state
JustResumed(t) == "woken" \in DOMAIN last /\ t \in last.woken

\* C35: a group task that suspend_group suspended and resume_group has
\* resumed is eventually selected by schedule(), with all tasks at Normal
\* priority and schedule() called again and again.
C35_ResumedTaskRunsAgain ==
    \A t \in 0..(MaxTasks - 1) : JustResumed(t) ~> (current = Some(t))


(***************************************************************************)
(* Properties of the semaphore's wake-ups (SemSpec)                        *)
(***************************************************************************)
\* the task is parked in acquire() and its flag is not set
Parked(p) == pc[p] = "wait" /\ ~flag[p]

\* C36: no lost wake-up: there is no state in which the count is positive,
\* a task is parked in acquire() with its flag unset, and no call is under
\* way that could still set it (every other task is idle or parked too).
C36_NoLostWakeup ==
    ~ ( /\ count > 0
        /\ \E p \in Procs : Parked(p)
        /\ \A q \in Procs : pc[q] = "idle" \/ Parked(q) )


(***************************************************************************)
(* Properties of the RwLock (RwSpec)                                       *)
(***************************************************************************)
\* the task is parked in read() or write() and its flag is not set
RwParked(p) == rw_at[p] \in {"wait_read", "wait_write"} /\ ~rw_flag[p]

\* C37: when the last holder releases the lock while tasks are parked in
\* read() or write(), a parked task is woken: its flag is set.
C37_ReleaseWakesParked ==
    [][ ( /\ Readers \cup Writers # {}
          /\ Readers' \cup Writers' = {}
          /\ \E p \in Procs : RwParked(p) )
        => \E p \in Procs : RwParked(p) /\ rw_flag'[p] ]_vars


(***************************************************************************)
(* Properties of the registry-level socket calls (SockSpec)                *)
(***************************************************************************)
\* C38: a registry-level bind or close on a registered socket, made while
\* no other task holds the registry lock, returns: its path does not ask
\* for a lock it holds itself.
C38_RegistryCallReturns ==
    [][ \A socket_id \in RegistryKeys :
          ( /\ ~Blocked_on_registry
            /\ \/ close(socket_id)
               \/ \E addr \in Addresses, port \in LocalPorts : bind(socket_id, addr, port) )
          => ~net_hung' ]_vars


\* C39: close(id) takes the socket out of the registry and its UDP port out
\* of the demux table, and a bind of another registered socket that follows
\* the close, to an endpoint no registered socket holds, succeeds.
C39_ClosedEndpointIsFree ==
    [][ \A socket_id \in RegistryKeys :
          /\ (close(socket_id) /\ ~Blocked_on_registry)
             => /\ socket_id \notin DOMAIN SOCKETS'
                /\ (sock[SOCKETS[socket_id]].socket_type = Dgram
                      /\ sock[SOCKETS[socket_id]].local_port # 0)
                   => sock[SOCKETS[socket_id]].local_port \notin UDP_SOCKETS'
          /\ \A addr \in Addresses, port \in LocalPorts :
                ( /\ bind(socket_id, addr, port)
                  /\ sock_ret.op = "close"
                  /\ ~Blocked_on_registry
                  /\ sock[SOCKETS[socket_id]].state = "Closed"
                  /\ ~\E r \in Registered :
                        sock[r].local_port = port /\ sock[r].local_addr = addr )
                => sock_ret'.ret = "Ok" ]_vars


(***************************************************************************)
(* Properties of Stream sockets (StreamSpec)                               *)
(***************************************************************************)
\* C40: whenever a Stream socket is Connected its TCP connection is
\* Established.
C40_ConnectedMeansEstablished ==
    \A o \in 1..Len(sock) :
        (sock[o].socket_type = Stream /\ sock[o].state = "Connected")
        => conn.state = "Established"

====
